---- MODULE Spec2Model ----
(***************************************************************************)
(* KOPernicus research agent: the workflow graph of workflow.py, the nodes *)
(* of nodes.py, the state schema of state.py and the CLI loop of main.py.  *)
(*                                                                         *)
(* `state` is the checkpointed AgentState of the session (one thread id).  *)
(* A key that was never written is absent from DOMAIN state; the           *)
(* accumulating channels (Annotated[..., operator.add]) start as [].       *)
(* Every graph node is one action: it computes the node's delta from the   *)
(* state snapshot and the answer of the reasoning provider / the tools,    *)
(* merges the delta (Merge) and moves pc along the edge of the graph.      *)
(***************************************************************************)
EXTENDS Integers, Sequences, FiniteSets, TLC

VARIABLES
    state,          \* checkpointed AgentState (function: key -> value)
    pc,             \* next graph node, "END" (run finished) or "idle" (waiting for input)
    current_state,  \* main.py: the CLI's local dict current_state
    turn,           \* number of inputs processed so far
    last_node,      \* name of the node that produced the last streamed delta
    llm_reply,      \* last answer consumed from the reasoning provider (NotAsked: none)
    tool_log,       \* last executor step: the call requested and the calls of tool.ainvoke
    loops,          \* executor steps run in the current turn
    iter0,          \* iteration_count at the start of the current turn
    caller,         \* server.py: the caller whose request the run in progress serves
    own,            \* per caller, the state its own last request ended with
    twin            \* the state of a second run replayed from the same saved state

vars ==
    <<state, pc, current_state, turn, last_node, llm_reply, tool_log, loops, iter0,
      caller, own, twin>>

----------------------------------------------------------------------------
(* Bounds of the model *)

\* workflow.py:112 / nodes.py:431 read state.get("max_iterations", 15); the key is
\* never written to the checkpoint, so the default is the ceiling. Scaled down.
MaxIterations == 5
\* inputs (turns) of one session
MaxTurns == 3
\* requests served by the HTTP entry point
MaxRequests == 2
\* longest step history the decision step is handed when it is taken alone
MaxSteps == 4

(* Program constants *)
FRUSTRATION_THRESHOLD == 3
\* nodes.py:384  state.get("iteration_count", 0) > 2
FrustrationMinIteration == 2
\* nodes.py:999  len(curies) >= 5
MaxCuries == 5

----------------------------------------------------------------------------
(* dict helpers *)

Has(s, k) == k \in DOMAIN s
Get(s, k, default) == IF k \in DOMAIN s THEN s[k] ELSE default
\* python truthiness of state.get(k) for string / list / bool valued keys
StrTruthy(s, k) == Has(s, k) /\ s[k] # ""
BoolTruthy(s, k) == Has(s, k) /\ s[k] = TRUE

\* state.py:13-41  the channels annotated with operator.add
Accumulating ==
    {"past_steps", "evidence", "schema_patterns", "interpreted_evidence", "negative_knowledge"}

\* faulty variant: every key of the delta overwrites, the list channels too
MergeOverwrite(s, d) ==
    [k \in (DOMAIN s) \cup (DOMAIN d) |-> IF k \in DOMAIN d THEN d[k] ELSE s[k]]

\* state.py:9-50 + langgraph channel update: accumulating channels concatenate,
\* every other key of the delta overwrites, absent keys are left alone
Merge(s, d) ==
    [k \in (DOMAIN s) \cup (DOMAIN d) |->
        IF k \in DOMAIN d
        THEN IF k \in Accumulating THEN Get(s, k, <<>>) \o d[k] ELSE d[k]
        ELSE s[k]]

EmptyDelta == <<>>

\* the session's checkpoint before the first input: only the list channels exist
InitialState == [k \in Accumulating |-> <<>>]

\* main.py:60-75
InitialCurrentState ==
    [plan |-> <<>>, past_steps |-> <<>>, evidence |-> <<>>, schema_patterns |-> <<>>,
     coverage_assessment |-> "{}", loop_detection |-> "{}",
     should_explore_more |-> TRUE, should_transition_to_synthesis |-> FALSE,
     ready_to_answer |-> FALSE, exploration_strategy |-> "", response |-> "",
     iteration_count |-> 0, max_iterations |-> 15, is_plan_approved |-> FALSE]

----------------------------------------------------------------------------
(* Answers of the reasoning provider, per call site *)

\* PlanningPhase.decision (state.py:197-199); "fail": the call or the parser raised
GateReplies == {"approved", "feedback", "fail"}
\* response.content of the proposer; "": blank content; "fail": the call raised
ProposerReplies == {"plan A", "fail"}
\* QueryClassification.contract (query_type, required_predicates); ok = FALSE: raised
ClassifierReplies ==
    {[ok |-> TRUE, query_type |-> "treatment", required_predicates |-> <<"biolink:treats">>]}
\* Plan.steps; ok = FALSE: raised
PlannerReplies ==
    {[ok |-> TRUE, steps |-> <<"resolve entity", "get edges">>]}
\* the texts the caller types, one per turn
Inputs ==
    <<"What treats diabetes?", "Proceed", "What causes asthma?", "Go ahead",
      "What treats asthma?", "Yes">>

----------------------------------------------------------------------------
(* Plan negotiation gate *)

\* faulty variant: a classifier failure is taken for an approval
PlanGatekeeperNodeApproveOnFail(s, r) ==
    IF ~StrTruthy(s, "plan_proposal")
    THEN [is_plan_approved |-> FALSE]
    ELSE IF r \in {"approved", "fail"}
         THEN [is_plan_approved |-> TRUE, planning_feedback |-> "", response |-> ""]
         ELSE [is_plan_approved |-> FALSE, planning_feedback |-> s["input"]]

\* nodes.py:194-214
\* faulty variant: an approval leaves the proposal standing in response
PlanGatekeeperNodeKeepResponse(s, r) ==
    IF ~StrTruthy(s, "plan_proposal")
    THEN [is_plan_approved |-> FALSE]
    ELSE IF r = "approved"
         THEN [is_plan_approved |-> TRUE, planning_feedback |-> ""]
         ELSE IF r = "feedback"
              THEN [is_plan_approved |-> FALSE, planning_feedback |-> s["input"]]
              ELSE [is_plan_approved |-> FALSE]

PlanGatekeeperNode(s, r) ==
    IF ~StrTruthy(s, "plan_proposal")
    THEN [is_plan_approved |-> FALSE]
    ELSE IF r = "approved"
         THEN [is_plan_approved |-> TRUE, planning_feedback |-> "", response |-> ""]
         ELSE IF r = "feedback"
              THEN [is_plan_approved |-> FALSE, planning_feedback |-> s["input"]]
              ELSE [is_plan_approved |-> FALSE]

\* the gatekeeper consults the provider only when a plan proposal exists
GatekeeperAsks(s) == StrTruthy(s, "plan_proposal")

\* faulty variant: every proposal anchors the session on the latest input
PlanProposerNodeReanchoring(s, r) ==
    IF r = "fail"
    THEN [plan_proposal |-> Get(s, "plan_proposal", "Error"),
          response |-> "I encountered an error generating the plan"]
    ELSE LET plan == IF r = ""
                     THEN Get(s, "plan_proposal", "Error generating updated plan.")
                     ELSE r
         IN  [plan_proposal |-> plan, response |-> plan,
              original_query |-> Get(s, "input", "Unknown Query")]

\* nodes.py:783  the question the proposer's prompt is given
ProposerQuery(s) == Get(s, "original_query", Get(s, "input", "Unknown Query"))

\* nodes.py:774-804
PlanProposerNode(s, r) ==
    IF r = "fail"
    THEN [plan_proposal |-> Get(s, "plan_proposal", "Error"),
          response |-> "I encountered an error generating the plan"]
    ELSE LET plan == IF r = ""
                     THEN Get(s, "plan_proposal", "Error generating updated plan.")
                     ELSE r
             result == [plan_proposal |-> plan, response |-> plan]
         IN  IF ~StrTruthy(s, "original_query")
             THEN result @@ [original_query |-> Get(s, "input", "Unknown Query")]
             ELSE result

\* faulty variant: the approval flag is not consulted, an existing plan unlocks the contract step
route_planning_no_approval(s) ==
    IF ~StrTruthy(s, "plan_proposal") THEN "plan_proposer" ELSE "query_classifier"

\* workflow.py:70-78
route_planning(s) ==
    IF ~StrTruthy(s, "plan_proposal")
    THEN "plan_proposer"
    ELSE IF BoolTruthy(s, "is_plan_approved")
         THEN "query_classifier"
         ELSE "plan_proposer"

----------------------------------------------------------------------------
(* Contract step and opening planner *)

\* nodes.py:122-127
_VALID_PREDICATES_BY_TYPE ==
    [treatment |-> {"biolink:treats", "biolink:treats_or_applied_or_studied_to_treat"}]

SelectSeq2(seq, S) == SelectSeq(seq, LAMBDA p : p \in S)
Range(seq) == {seq[i] : i \in 1..Len(seq)}

\* state.py:135-139  HardConstraints().dict()
DefaultHardConstraints ==
    [forbidden_entities |-> <<>>, forbidden_predicates |-> <<>>,
     locked_anchor_entities |-> <<>>]

\* state.py:165-172  AnswerContract(...).dict()
AnswerContract(query_type, entity_types, preds) ==
    [query_type |-> query_type, required_entity_types |-> entity_types,
     required_predicates |-> preds, min_path_length |-> 1, max_path_length |-> 3,
     requires_direct_evidence |-> FALSE]

\* nodes.py:137-184; `first` is next(iter(allowed)), the element the set iterator yields first
QueryClassifierNode(s, r, first) ==
    IF r.ok
    THEN LET original == r.required_predicates
             restricted == r.query_type \in DOMAIN _VALID_PREDICATES_BY_TYPE
             allowed == IF restricted THEN _VALID_PREDICATES_BY_TYPE[r.query_type] ELSE {}
             kept == SelectSeq2(original, allowed)
             filtered == IF kept = <<>> THEN <<first>> ELSE kept
             preds == IF restricted /\ Range(filtered) # Range(original)
                      THEN filtered ELSE original
         IN  [original_query |-> IF StrTruthy(s, "original_query")
                                 THEN s["original_query"] ELSE s["input"],
              answer_contract |-> AnswerContract(r.query_type, <<"Entity">>, preds),
              hard_constraints |-> DefaultHardConstraints]
    ELSE [answer_contract |->
              AnswerContract("association", <<"Entity">>, <<"biolink:related_to">>),
          hard_constraints |-> DefaultHardConstraints]

\* faulty variant: every step the provider lists is queued
PlannerNodeAllSteps(s, r) ==
    IF r.ok
    THEN [plan |-> r.steps, exploration_strategy |-> "strategy"]
    ELSE [plan |-> <<>>, exploration_strategy |-> "I encountered an error while planning"]

\* nodes.py:228  the question the opening planner's prompt is given
PlannerQuery(s) == Get(s, "original_query", s["input"])

\* nodes.py:224-246
PlannerNode(s, r) ==
    IF r.ok
    THEN [plan |-> SubSeq(r.steps, 1, IF Len(r.steps) < 1 THEN Len(r.steps) ELSE 1),
          exploration_strategy |-> "strategy"]
    ELSE [plan |-> <<>>, exploration_strategy |-> "I encountered an error while planning"]

----------------------------------------------------------------------------
(* Capability adapter: ExecutorNode *)

\* names of the tools handed to the executor (t.name for t in tools)
Tools ==
    {"lookup", "get_normalized_nodes", "get_node", "get_edge_summary", "get_edges",
     "get_edges_between"}

\* tool_args.get(k): None is modelled by "", which is falsy as well
ArgGet(args, k) == IF k \in DOMAIN args THEN args[k] ELSE ""
\* a or b or c or d
Or4(a, b, c, d) == IF a # "" THEN a ELSE IF b # "" THEN b ELSE IF c # "" THEN c ELSE d

\* An output text is [mark, tool, text]: mark is its first character (the check
\* mark, the cross or neither), text the sequence of tokens that follow.
CheckMark == "check"
CrossMark == "cross"
Output(mark, tool, text) == [mark |-> mark, tool |-> tool, text |-> text]

\* nodes.py:866-874: the ban applies to every predicate the constraints list
GlobalPredicateBan(pred, constraints) ==
    pred # "" /\ pred \in Range(Get(constraints, "forbidden_predicates", <<>>))

\* faulty variant: the source of the forbidden pair is not compared
ContinuationBanAnySource(source, pred, constraints) ==
    /\ pred # "" /\ source # ""
    /\ \E fc \in Range(Get(constraints, "forbidden_continuations", <<>>)) :
           ArgGet(fc, "predicate") = pred

\* nodes.py:876-888
ContinuationBan(source, pred, constraints) ==
    /\ pred # "" /\ source # ""
    /\ \E fc \in Range(Get(constraints, "forbidden_continuations", <<>>)) :
           ArgGet(fc, "source") = source /\ ArgGet(fc, "predicate") = pred

\* the parameters of the tools whose value is a list, not a string
ListArgs == {"curies"}

\* faulty variant: only the arguments named curie are compared
EntityBanCurieOnly(args, constraints) ==
    {args[k] : k \in (DOMAIN args) \cap {"curie"}}
        \cap Range(Get(constraints, "forbidden_entities", <<>>))

\* nodes.py:890-898: the string argument values that are forbidden entities
\* (isinstance(arg_val, str): a list argument is not looked into)
EntityBan(args, constraints) ==
    {args[k] : k \in (DOMAIN args) \ ListArgs}
        \cap Range(Get(constraints, "forbidden_entities", <<>>))

\* nodes.py:858  the tools whose predicate / source are checked
PolicedTools == {"get_edges", "get_edge_summary"}

\* faulty variant: a failed call of any tool is tried a second time
_invoke_tool_retrying_all(tool_name, o1, o2) ==
    IF ~o1.raised
    THEN [raised |-> FALSE, result |-> o1.result, n |-> 1]
    ELSE [raised |-> o2.raised, result |-> o2.result, n |-> 2]

\* nodes.py:966-982; o1, o2: outcome of the first call and of the retry
\* ([raised, result]); n counts the calls of tool.ainvoke
_invoke_tool(tool_name, o1, o2) ==
    IF ~o1.raised
    THEN [raised |-> FALSE, result |-> o1.result, n |-> 1]
    ELSE IF tool_name # "lookup"
         THEN [raised |-> TRUE, result |-> o1.result, n |-> 1]
         ELSE [raised |-> o2.raised, result |-> o2.result, n |-> 2]

\* the tokens of a text that match r'\b([A-Z][A-Z0-9]+:\d+)\b' (nodes.py:991)
\* ("NCBIGene:3630" and "MESH:D003920" do not match: a lower-case letter before
\* the colon, a letter after it)
IsCurie(tok) ==
    tok \in {"MONDO:0005148", "CHEBI:6801", "HP:0000001", "DOID:9352", "HGNC:6081",
             "OMIM:222100", "EFO:0000400"}

\* faulty variant: every distinct identifier is kept, however many there are
RECURSIVE DedupCuriesUncapped(_, _)
DedupCuriesUncapped(raw, curies) ==
    IF raw = <<>> THEN curies
    ELSE LET c == Head(raw)
         IN  DedupCuriesUncapped(Tail(raw),
                                 IF c \in Range(curies) THEN curies ELSE Append(curies, c))

\* faulty variant: the first 5 tokens are taken, repeated ones included
RECURSIVE DedupCuriesKeepingRepeats(_, _)
DedupCuriesKeepingRepeats(raw, curies) ==
    IF raw = <<>> THEN curies
    ELSE LET next == Append(curies, Head(raw))
         IN  IF Len(next) >= MaxCuries THEN next
             ELSE DedupCuriesKeepingRepeats(Tail(raw), next)

\* nodes.py:993-1000  order-preserving deduplication, at most 5
RECURSIVE DedupCuries(_, _)
DedupCuries(raw, curies) ==
    IF raw = <<>> THEN curies
    ELSE LET c == Head(raw)
             next == IF c \in Range(curies) THEN curies ELSE Append(curies, c)
         IN  IF Len(next) >= MaxCuries THEN next ELSE DedupCuries(Tail(raw), next)

ExtractCuries(text) == DedupCuries(SelectSeq(text, IsCurie), <<>>)

\* faulty variant: a normalization call that raised is recorded like one that returned
_auto_normalize_recording_errors(tools, lookup_result_str, task, o3) ==
    LET curies == ExtractCuries(lookup_result_str)
        call == [tool |-> "get_normalized_nodes", args |-> [curies |-> curies],
                 raised |-> o3.raised]
    IN  IF curies = <<>> \/ "get_normalized_nodes" \notin tools
        THEN [evidence |-> <<>>, text |-> <<>>, called |-> <<>>]
        ELSE [evidence |-> <<[step |-> task, tool |-> "get_normalized_nodes",
                              args |-> [curies |-> curies],
                              status |-> IF o3.raised THEN "error" ELSE "success",
                              data |-> o3.result]>>,
              text |-> <<Output(IF o3.raised THEN CrossMark ELSE CheckMark,
                                "get_normalized_nodes (auto)", o3.result.text)>>,
              called |-> <<call>>]

\* nodes.py:984-1031; returns [evidence, text, called]; evidence = <<>> stands for None
_auto_normalize(tools, lookup_result_str, task, o3) ==
    LET curies == ExtractCuries(lookup_result_str)
        nothing == [evidence |-> <<>>, text |-> <<>>, called |-> <<>>]
    IN  IF curies = <<>> THEN nothing
        ELSE IF "get_normalized_nodes" \notin tools THEN nothing
        ELSE LET call == [tool |-> "get_normalized_nodes", args |-> [curies |-> curies],
                          raised |-> o3.raised]
             IN  IF o3.raised
                 THEN [evidence |-> <<>>, text |-> <<>>, called |-> <<call>>]
                 ELSE [evidence |-> <<[step |-> task, tool |-> "get_normalized_nodes",
                                       args |-> [curies |-> curies], status |-> "success",
                                       data |-> o3.result]>>,
                       text |-> <<Output(CheckMark, "get_normalized_nodes (auto)", o3.result.text)>>,
                       called |-> <<call>>]

\* nodes.py:941  "timeout" if "timeout" in err_str.lower() else "execution_error"
ErrorType(err_text) ==
    IF "timeout" \in Range(err_text) THEN "timeout" ELSE "execution_error"

\* faulty variant: a blocked call is given a status of its own
BlockedRejected(task, msg) ==
    [delta |-> [past_steps |-> << <<task, Output("", "", msg)>> >>,
                evidence |-> <<[step |-> task, status |-> "rejected", data |-> msg]>>],
     log |-> <<>>]

\* nodes.py:869-874, 880-888, 893-898  the step returned when a ban applies
Blocked(task, msg) ==
    [delta |-> [past_steps |-> << <<task, Output("", "", msg)>> >>,
                evidence |-> <<[step |-> task, status |-> "failed", data |-> msg]>>],
     log |-> <<>>]

\* nodes.py:818, 833, 844-847  the tool call the provider asked for, if any
Requested(s, response) ==
    IF s["plan"] # <<>> /\ response.kind = "tool_call"
    THEN <<[tool |-> response.name, args |-> response.args]>>
    ELSE <<>>

\* nodes.py:816-964. response: the tool-binding provider's answer
\* ([kind, name, args, content]); o1, o2, o3: outcomes of the tool call, of its
\* retry and of the automatic normalization call. Returns the delta and the
\* calls of tool.ainvoke made, each with its outcome (log).
ExecutorNode(s, tools, response, o1, o2, o3) ==
    LET plan == s["plan"] IN
    IF plan = <<>>
    THEN [delta |-> [past_steps |-> << <<"ERROR", Output("", "", <<"No plan">>)>> >>,
                     evidence |-> <<[step |-> "ERROR", status |-> "failed",
                                     data |-> <<"No plan">>]>>],
          log |-> <<>>]
    ELSE
    LET task == plan[1] IN
    IF response.kind = "llm_error"
    THEN [delta |-> [past_steps |-> << <<task, Output("", "", <<"LLM Error">>)>> >>,
                     evidence |-> <<[step |-> task, status |-> "error",
                                     error_type |-> "llm_failed", data |-> <<"LLM Error">>]>>],
          log |-> <<>>]
    ELSE IF response.kind # "tool_call"
    THEN [delta |-> [past_steps |-> << <<task, Output("", "", <<"No tool call generated">>)>> >>,
                     evidence |-> <<[step |-> task, status |-> "failed",
                                     data |-> response.content]>>],
          log |-> <<>>]
    ELSE
    LET tool_name == response.name
        tool_args == response.args
    IN
    IF tool_name \notin tools
    THEN [delta |-> [past_steps |-> << <<task, Output("", "", <<"Tool not found">>)>> >>,
                     evidence |-> <<[step |-> task, status |-> "error",
                                     error_type |-> "tool_not_found",
                                     data |-> <<"Tool not available">>]>>],
          log |-> <<>>]
    ELSE
    LET constraints == Get(s, "hard_constraints", <<>>)
        policed == tool_name \in PolicedTools
        pred == ArgGet(tool_args, "predicate")
        source == Or4(ArgGet(tool_args, "curie"), ArgGet(tool_args, "source_node"),
                      ArgGet(tool_args, "subject"), ArgGet(tool_args, "source"))
    IN
    IF policed /\ GlobalPredicateBan(pred, constraints)
    THEN Blocked(task, <<"Action blocked: predicate globally forbidden", pred>>)
    ELSE IF policed /\ ContinuationBan(source, pred, constraints)
    THEN Blocked(task, <<"Action blocked: path forbidden due to loops", source, pred>>)
    ELSE IF EntityBan(tool_args, constraints) # {}
    THEN Blocked(task, <<"Action blocked: entity globally forbidden">>)
    ELSE
    LET inv == _invoke_tool(tool_name, o1, o2)
        call == [tool |-> tool_name, args |-> tool_args, raised |-> inv.raised]
        calls == IF inv.n = 2 THEN <<[call EXCEPT !.raised = TRUE], call>> ELSE <<call>>
    IN
    IF inv.raised
    THEN [delta |-> [past_steps |-> << <<task, Output(CrossMark, tool_name, inv.result.text)>> >>,
                     evidence |-> <<[step |-> task, tool |-> tool_name, args |-> tool_args,
                                     status |-> "error", error_type |-> ErrorType(inv.result.text),
                                     data |-> inv.result.text]>>],
          log |-> calls]
    ELSE
    LET evidence_item == [step |-> task, tool |-> tool_name, args |-> tool_args,
                          status |-> "success", data |-> inv.result]
        output_text == Output(CheckMark, tool_name, inv.result.text)
        norm == IF tool_name = "lookup"
                THEN _auto_normalize(tools, inv.result.text, task, o3)
                ELSE [evidence |-> <<>>, text |-> <<>>, called |-> <<>>]
    IN
    IF norm.evidence # <<>>
    THEN [delta |-> [past_steps |-> << <<task, output_text>>, <<task, norm.text[1]>> >>,
                     evidence |-> <<evidence_item>> \o norm.evidence],
          log |-> calls \o norm.called]
    ELSE [delta |-> [past_steps |-> << <<task, output_text>> >>,
                     evidence |-> <<evidence_item>>],
          log |-> calls \o norm.called]

----------------------------------------------------------------------------
(* Evidence interpretation and the analysis nodes *)

Last(seq) == seq[Len(seq)]
\* seq[-n:]
Tail_n(seq, n) == IF Len(seq) <= n THEN seq ELSE SubSeq(seq, Len(seq) - n + 1, Len(seq))

\* nodes.py:472
EdgeTools == {"get_edges", "get_edges_between"}

\* faulty variant: a failed record leaves no negative knowledge
EvidenceInterpreterNodeSilentOnFailure(s, r) ==
    IF Get(s, "evidence", <<>>) = <<>> THEN EmptyDelta
    ELSE
    LET last_raw == Last(s["evidence"]) IN
    IF last_raw.status # "success" THEN EmptyDelta
    ELSE IF Get(last_raw, "tool", "") \notin EdgeTools THEN EmptyDelta
    ELSE IF r.ok THEN [interpreted_evidence |-> r.items]
    ELSE EmptyDelta

\* faulty variant: the successful record of any tool is interpreted
EvidenceInterpreterNodeAnyTool(s, r) ==
    IF Get(s, "evidence", <<>>) = <<>> THEN EmptyDelta
    ELSE
    LET last_raw == Last(s["evidence"])
        args == Get(last_raw, "args", <<>>)
    IN
    IF last_raw.status # "success"
    THEN [negative_knowledge |->
            <<[entity |-> IF "curie" \in DOMAIN args THEN args["curie"] ELSE "unknown",
               predicate |-> IF "predicate" \in DOMAIN args THEN args["predicate"] ELSE "unknown",
               failure_reason |-> IF Get(last_raw, "data", <<>>) = <<>>
                                  THEN <<"Timeout/Error">> ELSE last_raw.data,
               iteration |-> Get(s, "iteration_count", 0)]>>]
    ELSE IF r.ok THEN [interpreted_evidence |-> r.items]
    ELSE EmptyDelta

\* nodes.py:454-484; r = [ok, items]: the InterpretedEvidenceList or a failure
EvidenceInterpreterNode(s, r) ==
    IF Get(s, "evidence", <<>>) = <<>> THEN EmptyDelta
    ELSE
    LET last_raw == Last(s["evidence"])
        args == Get(last_raw, "args", <<>>)
    IN
    IF last_raw.status # "success"
    THEN [negative_knowledge |->
            <<[entity |-> IF "curie" \in DOMAIN args THEN args["curie"] ELSE "unknown",
               predicate |-> IF "predicate" \in DOMAIN args THEN args["predicate"] ELSE "unknown",
               failure_reason |-> IF Get(last_raw, "data", <<>>) = <<>>
                                  THEN <<"Timeout/Error">> ELSE last_raw.data,
               iteration |-> Get(s, "iteration_count", 0)]>>]
    ELSE IF Get(last_raw, "tool", "") \notin EdgeTools THEN EmptyDelta
    ELSE IF r.ok THEN [interpreted_evidence |-> r.items]
    ELSE EmptyDelta

\* nodes.py:256-273
SchemaAnalyzerNode(s, r) ==
    LET last_evidence == IF s["evidence"] # <<>> THEN Last(s["evidence"]) ELSE <<>> IN
    IF Get(last_evidence, "tool", "") \in {"name-resolver", "nodenormalizer"}
    THEN [schema_patterns |-> <<>>]
    ELSE IF r.ok THEN [schema_patterns |-> r.patterns]
    ELSE [schema_patterns |-> <<>>]

\* nodes.py:283-295; the JSON text is kept as the object it encodes
CoverageAnalyzerNode(s, r) ==
    IF r.ok
    THEN [coverage_assessment |-> [density_score |-> r.density_score,
                                   explored_predicates |-> r.explored_predicates]]
    ELSE [coverage_assessment |-> [density_score |-> 5, explored_predicates |-> <<>>]]

\* nodes.py:305-318
LoopDetectorNode(s, r) ==
    IF r.ok
    THEN [loop_detection |-> [is_looping |-> r.is_looping, repeated_pattern |-> "None",
                              recommendation |-> r.recommendation]]
    ELSE [loop_detection |-> [is_looping |-> FALSE, recommendation |-> "Continue"]]

\* state.py:135-139  HardConstraints: pydantic keeps the declared fields only
HardConstraintsDict(raw) ==
    [forbidden_entities |-> Get(raw, "forbidden_entities", <<>>),
     forbidden_predicates |-> Get(raw, "forbidden_predicates", <<>>),
     locked_anchor_entities |-> Get(raw, "locked_anchor_entities", <<>>)]

\* nodes.py:607  every 3 steps
AlignmentPeriod == 3

\* faulty variant: the steward runs in every cycle
AlignmentShouldRunAlways(s) == TRUE

\* faulty variant: only the number of steps decides, a flagged loop does not
AlignmentShouldRunByCountOnly(s) ==
    LET step_count == Len(Get(s, "past_steps", <<>>))
    IN  (step_count = 0) \/ (step_count % AlignmentPeriod = 0)

\* nodes.py:602-610
AlignmentShouldRun(s) ==
    LET step_count == Len(Get(s, "past_steps", <<>>))
        loop_data == Get(s, "loop_detection", <<>>)
        is_looping == Get(loop_data, "is_looping", FALSE)
        should_run == (step_count = 0) \/ (step_count % AlignmentPeriod = 0) \/ is_looping
    IN  ~(~should_run /\ step_count > 0)

\* nodes.py:594-645; r = [ok, updated_log, hard_constraints]
AlignmentNode(s, r) ==
    IF ~AlignmentShouldRun(s) THEN EmptyDelta
    ELSE IF r.ok
         THEN [community_log |-> r.updated_log,
               hard_constraints |-> HardConstraintsDict(r.hard_constraints)]
         ELSE EmptyDelta

----------------------------------------------------------------------------
(* Decision step and loop guard *)

\* nodes.py:364-369
_EMPTY_MARKERS ==
    {"No edges found", "Found 0 results", "Found 0 edge", "--[unknown]--> Unknown"}

\* nodes.py:370-373
_is_productive(output) ==
    IF output.mark # CheckMark THEN FALSE
    ELSE ~(\E m \in _EMPTY_MARKERS : m \in Range(output.text))

\* nodes.py:375-380  trailing non-productive steps
RECURSIVE consecutive_failures(_)
consecutive_failures(past_steps) ==
    IF past_steps = <<>> THEN 0
    ELSE IF _is_productive(Last(past_steps)[2]) THEN 0
    ELSE 1 + consecutive_failures(SubSeq(past_steps, 1, Len(past_steps) - 1))

\* faulty variant: the guard waits for one more failure than the threshold
LoopGuardLate(s) ==
    /\ consecutive_failures(Get(s, "past_steps", <<>>)) > FRUSTRATION_THRESHOLD
    /\ Get(s, "iteration_count", 0) > FrustrationMinIteration

\* nodes.py:383-384
LoopGuard(s) ==
    /\ consecutive_failures(Get(s, "past_steps", <<>>)) >= FRUSTRATION_THRESHOLD
    /\ Get(s, "iteration_count", 0) > FrustrationMinIteration

\* faulty variant: the subject and the object of every qualifying item count
unique_entities_both_ends(s) ==
    LET contract == Get(s, "answer_contract", <<>>)
        required_preds == Range(Get(contract, "required_predicates", <<>>))
        interpreted == Get(s, "interpreted_evidence", <<>>)
        items == {x \in Range(interpreted) : x.predicate \in required_preds}
    IN  Cardinality(({e.subject_curie : e \in items} \cup {e.object_curie : e \in items})
                        \ {""})

\* nodes.py:400-406
unique_entities(s) ==
    LET contract == Get(s, "answer_contract", <<>>)
        required_preds == Range(Get(contract, "required_predicates", <<>>))
        interpreted == Get(s, "interpreted_evidence", <<>>)
    IN  Cardinality({ IF e.subject_curie # "" THEN e.subject_curie ELSE e.object_curie :
                        e \in {x \in Range(interpreted) : x.predicate \in required_preds} })

\* nodes.py:406  the threshold handed to the provider
min_unique(s) == Get(Get(s, "answer_contract", <<>>), "min_unique_entities", 1)

\* faulty variant: a failure of the provider stops the exploration at once
DecisionMakerNodeStopOnFail(s, r) ==
    IF LoopGuard(s)
    THEN LET decision == IF Get(s, "interpreted_evidence", <<>>) # <<>>
                         THEN "synthesize" ELSE "stop"
         IN  [should_explore_more |-> FALSE,
              should_transition_to_synthesis |-> (decision = "synthesize"),
              ready_to_answer |-> TRUE,
              decision_reasoning |-> <<"Forced", decision>>]
    ELSE IF r.ok
    THEN [should_explore_more |-> (r.control_decision = "explore"),
          should_transition_to_synthesis |-> (r.control_decision = "synthesize"),
          ready_to_answer |-> (r.control_decision # "explore"),
          decision_reasoning |-> <<"reasoning", r.control_decision>>]
    ELSE [should_explore_more |-> FALSE,
          should_transition_to_synthesis |-> TRUE,
          ready_to_answer |-> TRUE,
          decision_reasoning |-> <<"Error in decision making", "stop">>]

\* nodes.py:356-440; r = [ok, control_decision]
DecisionMakerNode(s, r) ==
    IF LoopGuard(s)
    THEN LET decision == IF Get(s, "interpreted_evidence", <<>>) # <<>>
                         THEN "synthesize" ELSE "stop"
         IN  [should_explore_more |-> FALSE,
              should_transition_to_synthesis |-> (decision = "synthesize"),
              ready_to_answer |-> TRUE,
              decision_reasoning |-> <<"Forced", decision>>]
    ELSE IF r.ok
    THEN [should_explore_more |-> (r.control_decision = "explore"),
          should_transition_to_synthesis |-> (r.control_decision = "synthesize"),
          ready_to_answer |-> (r.control_decision # "explore"),
          decision_reasoning |-> <<"reasoning", r.control_decision>>]
    ELSE LET at_limit == Get(s, "iteration_count", 0) >= Get(s, "max_iterations", MaxIterations)
         IN  [should_explore_more |-> ~at_limit,
              should_transition_to_synthesis |-> at_limit,
              ready_to_answer |-> at_limit,
              decision_reasoning |-> <<"Error in decision making",
                                       IF at_limit THEN "stop" ELSE "continue">>]

\* workflow.py:36-39  the graph's wrapper adds the counter to the node's delta
decision_maker_delta(s, r) ==
    DecisionMakerNode(s, r) @@ [iteration_count |-> Get(s, "iteration_count", 0) + 1]

\* faulty variant: the ceiling is compared one step late
route_after_decision_late(s) ==
    IF StrTruthy(s, "response") THEN "end"
    ELSE IF BoolTruthy(s, "should_transition_to_synthesis") THEN "synthesis"
    ELSE IF Get(s, "iteration_count", 0) > Get(s, "max_iterations", MaxIterations)
         THEN "synthesis"
         ELSE "exploration"

\* workflow.py:107-114
route_after_decision(s) ==
    IF StrTruthy(s, "response") THEN "end"
    ELSE IF BoolTruthy(s, "should_transition_to_synthesis") THEN "synthesis"
    ELSE IF Get(s, "iteration_count", 0) >= Get(s, "max_iterations", MaxIterations)
         THEN "synthesis"
         ELSE "exploration"

\* workflow.py:116-124
AfterDecision(s) ==
    LET r == route_after_decision(s) IN
    IF r = "exploration" THEN "exploration_planner"
    ELSE IF r = "synthesis" THEN "synthesis_planner"
    ELSE "END"

----------------------------------------------------------------------------
(* Planners of the loop and answer generation *)

\* faulty variant: the exploration planner narrows the contract to the action it plans
ExplorationPlannerNodeRescoping(s, r) ==
    IF r.ok
    THEN [plan |-> <<r.action>>, planning_rationale |-> "rationale",
          answer_contract |-> AnswerContract("association", <<"Entity">>, <<>>)]
    ELSE [plan |-> <<"Get edge summary for primary concept">>,
          planning_rationale |-> "Defaulting to scouting due to planning error"]

\* nodes.py:525-584; r = [ok, action]
ExplorationPlannerNode(s, r) ==
    IF r.ok
    THEN [plan |-> <<r.action>>, planning_rationale |-> "rationale"]
    ELSE [plan |-> <<"Get edge summary for primary concept">>,
          planning_rationale |-> "Defaulting to scouting due to planning error"]

\* nodes.py:328-346
SynthesisPlannerNode(s, r) ==
    IF r.ok
    THEN [plan |-> <<"Generate answer: outline">>]
    ELSE [plan |-> <<"Generate answer with available evidence">>]

\* nodes.py:663
MAX_EVIDENCE_ITEMS == 15

\* faulty variant: a list of nodes in place of the dict keyed by id
UpsertNodeAppending(nodes, n) == Append(nodes, n)

\* nodes[id] = {...}: a dict keeps the position of a key it already holds
UpsertNode(nodes, n) ==
    IF \E i \in 1..Len(nodes) : nodes[i].id = n.id
    THEN [i \in 1..Len(nodes) |-> IF nodes[i].id = n.id THEN n ELSE nodes[i]]
    ELSE Append(nodes, n)

SubgraphNode(x) == [id |-> x.id, name |-> x.name, type |-> x.category]

\* nodes.py:695-721  one evidence item's edge list folded into (nodes, edges)
RECURSIVE FoldEdges(_, _)
FoldEdges(data, acc) ==
    IF data = <<>> THEN acc
    ELSE LET edge == Head(data)
             n1 == UpsertNode(acc.nodes, SubgraphNode(edge.subject))
             n2 == UpsertNode(n1, SubgraphNode(edge.object))
         IN  FoldEdges(Tail(data),
                       [nodes |-> n2,
                        edges |-> Append(acc.edges,
                                         [source |-> edge.subject.id, target |-> edge.object.id,
                                          label |-> edge.predicate])])

\* nodes.py:686-732
RECURSIVE ExtractSubgraph(_, _)
ExtractSubgraph(items, acc) ==
    IF items = <<>> THEN acc
    ELSE LET item == Head(items)
             data == Get(item, "data", <<>>)
         IN  IF Get(item, "tool", "") \in EdgeTools /\ data.edges # <<>>
             THEN ExtractSubgraph(Tail(items), FoldEdges(data.edges, acc))
             ELSE ExtractSubgraph(Tail(items), acc)

\* nodes.py:655-758
AnswerGeneratorNode(s, r) ==
    LET successful_evidence ==
            Tail_n(SelectSeq(Get(s, "evidence", <<>>), LAMBDA e : e.status = "success"),
                   MAX_EVIDENCE_ITEMS)
        critical_subgraph ==
            ExtractSubgraph(successful_evidence, [nodes |-> <<>>, edges |-> <<>>])
    IN  IF r.ok
        THEN [response |-> "answer", plan |-> <<>>, critical_subgraph |-> critical_subgraph]
        ELSE [response |-> "Based on collected evidence",
              plan |-> <<>>,
              critical_subgraph |-> [nodes |-> <<>>, edges |-> <<>>]]

----------------------------------------------------------------------------
(* Answers of the provider and of the tools inside the exploration loop *)

Item1 ==
    [subject_curie |-> "CHEBI:6801", predicate |-> "biolink:treats",
     object_curie |-> "MONDO:0005148", evidence_type |-> "direct", strength_score |-> 4,
     source_step |-> "get edges", rationale |-> "r"]

InterpreterReplies == {[ok |-> TRUE, items |-> <<Item1>>]}
SchemaReplies == {[ok |-> TRUE, patterns |-> <<"Drug -[treats]-> Disease">>]}
CoverageReplies == {[ok |-> TRUE, density_score |-> 7, explored_predicates |-> <<>>]}
LoopReplies ==
    {[ok |-> TRUE, is_looping |-> FALSE, recommendation |-> "Continue"]}
Log1 ==
    [resolved_entities |-> <<>>, trajectory |-> <<"t">>, deprioritized_paths |-> <<>>,
     hypotheses |-> <<>>, open_questions |-> <<>>, novelty_budget |-> 5,
     global_goal_reframed |-> ""]
AlignmentReplies ==
    {[ok |-> TRUE, updated_log |-> Log1,
      hard_constraints |-> [forbidden_entities |-> <<>>,
                            forbidden_predicates |-> <<"biolink:related_to">>,
                            forbidden_continuations |->
                                <<[source |-> "MONDO:0005148", predicate |-> "biolink:treats"]>>]],
     [ok |-> FALSE, updated_log |-> <<>>, hard_constraints |-> <<>>]}
DecisionReplies ==
    {[ok |-> TRUE, control_decision |-> "explore"],
     [ok |-> TRUE, control_decision |-> "synthesize"],
     [ok |-> TRUE, control_decision |-> "stop"],
     [ok |-> FALSE, control_decision |-> ""]}
ExplorationReplies == {[ok |-> TRUE, action |-> "get edges"]}
SynthesisReplies == {[ok |-> TRUE]}
AnswerReplies == {[ok |-> TRUE]}

Edge1 ==
    [subject |-> [id |-> "CHEBI:6801", name |-> "metformin", category |-> "Drug"],
     object |-> [id |-> "MONDO:0005148", name |-> "diabetes", category |-> "Disease"],
     predicate |-> "biolink:treats"]

Result(text, edges) == [raised |-> FALSE, result |-> [text |-> text, edges |-> edges]]
Raise(text) == [raised |-> TRUE, result |-> [text |-> text, edges |-> <<>>]]

\* what a call of the tool may return or raise
ToolOutcomes(tool) ==
    IF tool = "lookup"
    THEN {Result(<<"diabetes", "MONDO:0005148", "CHEBI:6801", "MONDO:0005148">>, <<>>),
          Result(<<"MONDO:0005148", "NCBIGene:3630", "CHEBI:6801", "MONDO:0005148",
                   "HP:0000001", "DOID:9352", "MESH:D003920", "HGNC:6081", "OMIM:222100",
                   "EFO:0000400">>, <<>>),
          Result(<<"Found 0 results">>, <<>>),
          Raise(<<"TimeoutError", "timeout">>)}
    ELSE IF tool = "get_normalized_nodes"
    THEN {Result(<<"normalized">>, <<>>), Raise(<<"ToolException">>)}
    ELSE {Result(<<"edges">>, <<Edge1>>), Result(<<"No edges found">>, <<>>),
          Raise(<<"ToolException">>)}

ToolCall(name, args) == [kind |-> "tool_call", name |-> name, args |-> args, content |-> <<>>]
NoToolCall == [kind |-> "no_tool_call", name |-> "", args |-> <<>>, content |-> <<"text">>]
LlmError == [kind |-> "llm_error", name |-> "", args |-> <<>>, content |-> <<>>]

\* One executor step's environment: the provider's answer and the outcomes of
\* the tool call (o1), of its retry (o2) and of the normalization call (o3).
ExecEnv(response, o1, o2, o3) == [response |-> response, o1 |-> o1, o2 |-> o2, o3 |-> o3]

EnvsOf(responses) ==
    {ExecEnv(response, o1, o2, o3) :
        response \in responses,
        o1 \in UNION {ToolOutcomes(x) : x \in Tools},
        o2 \in UNION {ToolOutcomes(x) : x \in Tools},
        o3 \in ToolOutcomes("get_normalized_nodes")}

\* the outcomes that belong to the tool that is called
Coherent(env) ==
    /\ env.o1 \in ToolOutcomes(env.response.name)
    /\ env.o2 \in ToolOutcomes(env.response.name)

\* environments of the executor inside the whole-session specification: the
\* provider either asks for no tool or for get_edges, which returns edges
GraphEnvs ==
    {ExecEnv(NoToolCall, Raise(<<"ToolException">>), Raise(<<"ToolException">>),
             Raise(<<"ToolException">>)),
     ExecEnv(ToolCall("get_edges",
                      [curie |-> "MONDO:0005148", predicate |-> "biolink:related_to"]),
             Result(<<"edges">>, <<Edge1>>), Result(<<"edges">>, <<Edge1>>),
             Raise(<<"ToolException">>))}

P1 == "biolink:related_to"
P2 == "biolink:treats"
E1 == "MONDO:0005148"
E2 == "CHEBI:6801"

\* answers of the tool-binding provider, executor taken alone
AllResponses ==
    {LlmError, NoToolCall,
     ToolCall("get_edges", [curie |-> E1, predicate |-> P1]),
     ToolCall("get_edges", [source |-> E1, predicate |-> P1]),
     ToolCall("get_edges", [curie |-> E2, predicate |-> P1]),
     ToolCall("get_edges", [curie |-> E1, predicate |-> P2]),
     ToolCall("get_edge_summary", [curie |-> E1]),
     ToolCall("get_edges_between", [curie1 |-> E1, curie2 |-> E2, predicate |-> P1]),
     ToolCall("lookup", [name |-> "diabetes"]),
     ToolCall("get_node", [curie |-> E2]),
     ToolCall("get_normalized_nodes", [curies |-> <<E2>>]),
     ToolCall("query_graph", [curie |-> E1])}

AllEnvs == {env \in EnvsOf(AllResponses) : Coherent(env)}

----------------------------------------------------------------------------
(* The session: CLI loop (main.py) and the compiled graph (workflow.py) *)

\* the callers of the HTTP entry point; NoCaller: no request is being served
Callers == {"caller 1", "caller 2"}
NoCaller == "nobody"
NoSessions == [c \in Callers |-> InitialState]

NotAsked == [ok |-> FALSE, answer |-> "not asked"]
\* tool_log: the call the provider asked for in the last executor step, and the
\* calls of tool.ainvoke that step made
NoCalls == [requested |-> <<>>, invoked |-> <<>>]
Reply(ok, answer) == [ok |-> ok, answer |-> answer]
\* the provider's answer together with the question its prompt was given
QueryAsked(ok, answer, query) == [ok |-> ok, answer |-> answer, query |-> query]

\* state.py:6-7, workflow.py:49  StateGraph(AgentState, input=InputState): of the
\* dict handed to astream only the keys of InputState are written to the channels
InputChannels == {"input"}
\* faulty variant: no input schema, every key of the dict is written to its channel
GraphInputAll(d) == d
GraphInput(d) == [k \in (DOMAIN d) \cap InputChannels |-> d[k]]

Init ==
    /\ state = InitialState
    /\ pc = "idle"
    /\ current_state = InitialCurrentState
    /\ turn = 0
    /\ last_node = "none"
    /\ llm_reply = NotAsked
    /\ tool_log = NoCalls
    /\ loops = 0
    /\ iter0 = 0
    /\ caller = NoCaller
    /\ own = NoSessions
    /\ twin = InitialState

\* one node of the graph has run: its delta is merged and checkpointed
NodeStep(node, delta, next, reply) ==
    /\ state' = Merge(state, delta)
    /\ pc' = next
    /\ last_node' = node
    /\ llm_reply' = reply

\* faulty variant: the run starts from the dict handed in, every key of it
\* replacing what the checkpoint holds
main_input_from_dict ==
    /\ pc = "idle"
    /\ turn < MaxTurns
    /\ turn < Len(Inputs)
    /\ \E valid \in BOOLEAN :
        LET user_input == Inputs[turn + 1]
            cs == [k \in (DOMAIN current_state) \cup {"input"} |->
                      IF k = "input" THEN user_input ELSE current_state[k]]
        IN  /\ current_state' = cs
            /\ turn' = turn + 1
            /\ IF ~StrTruthy(current_state, "plan_proposal") /\ ~valid
               THEN UNCHANGED <<state, pc, last_node, llm_reply, loops, iter0>>
               ELSE /\ state' = [k \in (DOMAIN state) \cup (DOMAIN cs) |->
                                    IF k \in DOMAIN cs THEN cs[k] ELSE state[k]]
                    /\ pc' = "plan_gatekeeper"
                    /\ last_node' = "none"
                    /\ llm_reply' = NotAsked
                    /\ loops' = 0
                    /\ iter0' = Get(state, "iteration_count", 0)
    /\ UNCHANGED <<tool_log, caller, own, twin>>

\* main.py:77-121  one input of the caller; valid: the validator's verdict
main_input ==
    /\ pc = "idle"
    /\ turn < MaxTurns
    /\ turn < Len(Inputs)
    /\ \E valid \in BOOLEAN :
        LET user_input == Inputs[turn + 1]
            cs == [k \in (DOMAIN current_state) \cup {"input"} |->
                      IF k = "input" THEN user_input ELSE current_state[k]]
        IN  /\ current_state' = cs
            /\ turn' = turn + 1
            /\ IF ~StrTruthy(current_state, "plan_proposal") /\ ~valid
               THEN UNCHANGED <<state, pc, last_node, llm_reply, loops, iter0>>
               ELSE /\ state' = Merge(state, GraphInput(cs))
                    /\ pc' = "plan_gatekeeper"
                    /\ last_node' = "none"
                    /\ llm_reply' = NotAsked
                    /\ loops' = 0
                    /\ iter0' = Get(state, "iteration_count", 0)
    /\ UNCHANGED <<tool_log, caller, own, twin>>

\* faulty variant: the reset empties past_steps and leaves the evidence
main_after_turn_keeping_evidence ==
    /\ pc = "END"
    /\ current_state' =
          IF BoolTruthy(state, "ready_to_answer")
          THEN [k \in (DOMAIN state) \cup
                      {"plan_proposal", "is_plan_approved", "ready_to_answer", "input",
                       "past_steps", "evidence", "iteration_count"} |->
                   IF k = "plan_proposal" THEN ""
                   ELSE IF k = "is_plan_approved" THEN FALSE
                   ELSE IF k = "ready_to_answer" THEN FALSE
                   ELSE IF k = "input" THEN ""
                   ELSE IF k = "past_steps" THEN <<>>
                   ELSE IF k = "iteration_count" THEN 0
                   ELSE state[k]]
          ELSE state
    /\ pc' = "idle"
    /\ UNCHANGED <<state, turn, last_node, llm_reply, tool_log, loops, iter0, caller, own, twin>>

\* main.py:159-175  the run ended: take the persisted state, reset after an answer
main_after_turn ==
    /\ pc = "END"
    /\ current_state' =
          IF BoolTruthy(state, "ready_to_answer")
          THEN [k \in (DOMAIN state) \cup
                      {"plan_proposal", "is_plan_approved", "ready_to_answer", "input",
                       "past_steps", "evidence", "iteration_count"} |->
                   IF k = "plan_proposal" THEN ""
                   ELSE IF k = "is_plan_approved" THEN FALSE
                   ELSE IF k = "ready_to_answer" THEN FALSE
                   ELSE IF k = "input" THEN ""
                   ELSE IF k = "past_steps" THEN <<>>
                   ELSE IF k = "evidence" THEN <<>>
                   ELSE IF k = "iteration_count" THEN 0
                   ELSE state[k]]
          ELSE state
    /\ pc' = "idle"
    /\ UNCHANGED <<state, turn, last_node, llm_reply, tool_log, loops, iter0, caller, own, twin>>

\* workflow.py:46, 67-87
plan_gatekeeper ==
    /\ pc = "plan_gatekeeper"
    /\ \E r \in GateReplies :
        LET delta == PlanGatekeeperNode(state, r) IN
        NodeStep("plan_gatekeeper", delta, route_planning(Merge(state, delta)),
                 IF GatekeeperAsks(state) THEN Reply(r # "fail", r) ELSE NotAsked)
    /\ UNCHANGED <<current_state, turn, tool_log, loops, iter0, caller, own, twin>>

\* workflow.py:45, 90
plan_proposer ==
    /\ pc = "plan_proposer"
    /\ \E r \in ProposerReplies :
        NodeStep("plan_proposer", PlanProposerNode(state, r), "END",
                 QueryAsked(r # "fail", r, ProposerQuery(state)))
    /\ UNCHANGED <<current_state, turn, tool_log, loops, iter0, caller, own, twin>>

\* workflow.py:43, 93
ClassifierStep(replies) ==
    /\ pc = "query_classifier"
    /\ \E r \in replies, first \in _VALID_PREDICATES_BY_TYPE["treatment"] :
        NodeStep("query_classifier", QueryClassifierNode(state, r, first), "planner",
                 Reply(r.ok, r.query_type))
    /\ UNCHANGED <<current_state, turn, tool_log, loops, iter0, caller, own, twin>>

query_classifier == ClassifierStep(ClassifierReplies)

\* workflow.py:30, 96
planner ==
    /\ pc = "planner"
    /\ \E r \in PlannerReplies :
        NodeStep("planner", PlannerNode(state, r), "executor",
                 QueryAsked(r.ok, "", PlannerQuery(state)))
    /\ UNCHANGED <<current_state, turn, tool_log, loops, iter0, caller, own, twin>>

\* workflow.py:31, 99  the executor node in an environment drawn from `envs`
ExecutorStep(envs) ==
    /\ pc = "executor"
    /\ \E env \in envs :
        LET res == ExecutorNode(state, Tools, env.response, env.o1, env.o2, env.o3) IN
        /\ NodeStep("executor", res.delta, "evidence_interpreter",
                    Reply(env.response.kind # "llm_error", env.response.kind))
        /\ tool_log' = [requested |-> Requested(state, env.response), invoked |-> res.log]
    /\ loops' = loops + 1
    /\ UNCHANGED <<current_state, turn, iter0, caller, own, twin>>

executor == ExecutorStep(GraphEnvs)

\* workflow.py:44, 100
InterpreterStep(replies) ==
    /\ pc = "evidence_interpreter"
    /\ \E r \in replies :
        NodeStep("evidence_interpreter", EvidenceInterpreterNode(state, r),
                 "schema_analyzer", Reply(r.ok, ""))
    /\ UNCHANGED <<current_state, turn, tool_log, loops, iter0, caller, own, twin>>

evidence_interpreter == InterpreterStep(InterpreterReplies)

\* workflow.py:32, 101
SchemaStep(replies) ==
    /\ pc = "schema_analyzer"
    /\ \E r \in replies :
        NodeStep("schema_analyzer", SchemaAnalyzerNode(state, r), "coverage_analyzer",
                 Reply(r.ok, ""))
    /\ UNCHANGED <<current_state, turn, tool_log, loops, iter0, caller, own, twin>>

schema_analyzer == SchemaStep(SchemaReplies)

\* workflow.py:33, 102
coverage_analyzer ==
    /\ pc = "coverage_analyzer"
    /\ \E r \in CoverageReplies :
        NodeStep("coverage_analyzer", CoverageAnalyzerNode(state, r), "loop_detector",
                 Reply(r.ok, ""))
    /\ UNCHANGED <<current_state, turn, tool_log, loops, iter0, caller, own, twin>>

\* workflow.py:34, 103
LoopDetectorStep(replies) ==
    /\ pc = "loop_detector"
    /\ \E r \in replies :
        NodeStep("loop_detector", LoopDetectorNode(state, r), "alignment", Reply(r.ok, ""))
    /\ UNCHANGED <<current_state, turn, tool_log, loops, iter0, caller, own, twin>>

loop_detector == LoopDetectorStep(LoopReplies)

\* nodes.py:630-642  the provider's answer together with the hard_constraints
\* it issued
StewardAsked(ok, answer, issued) == [ok |-> ok, answer |-> answer, issued |-> issued]

\* workflow.py:35, 104
AlignmentStep(replies) ==
    /\ pc = "alignment"
    /\ \E r \in replies :
        NodeStep("alignment", AlignmentNode(state, r), "decision_maker",
                 IF AlignmentShouldRun(state) THEN StewardAsked(r.ok, "", r.hard_constraints)
                 ELSE NotAsked)
    /\ UNCHANGED <<current_state, turn, tool_log, loops, iter0, caller, own, twin>>

alignment == AlignmentStep(AlignmentReplies)

\* nodes.py:408-417  the provider's answer together with the count the prompt
\* was given
DecisionAsked(ok, answer, count) ==
    [ok |-> ok, answer |-> answer, unique_entities |-> count]

\* workflow.py:36-39, 107-124
decision_maker ==
    /\ pc = "decision_maker"
    /\ \E r \in DecisionReplies :
        LET delta == decision_maker_delta(state, r) IN
        NodeStep("decision_maker", delta, AfterDecision(Merge(state, delta)),
                 IF LoopGuard(state) THEN NotAsked
                 ELSE DecisionAsked(r.ok, r.control_decision, unique_entities(state)))
    /\ UNCHANGED <<current_state, turn, tool_log, loops, iter0, caller, own, twin>>

\* workflow.py:40, 127
exploration_planner ==
    /\ pc = "exploration_planner"
    /\ \E r \in ExplorationReplies :
        NodeStep("exploration_planner", ExplorationPlannerNode(state, r), "executor",
                 Reply(r.ok, ""))
    /\ UNCHANGED <<current_state, turn, tool_log, loops, iter0, caller, own, twin>>

\* workflow.py:41, 130
synthesis_planner ==
    /\ pc = "synthesis_planner"
    /\ \E r \in SynthesisReplies :
        NodeStep("synthesis_planner", SynthesisPlannerNode(state, r), "answer_generator",
                 Reply(r.ok, ""))
    /\ UNCHANGED <<current_state, turn, tool_log, loops, iter0, caller, own, twin>>

\* workflow.py:42, 131
AnswerStep(replies) ==
    /\ pc = "answer_generator"
    /\ \E r \in replies :
        NodeStep("answer_generator", AnswerGeneratorNode(state, r), "END", Reply(r.ok, ""))
    /\ UNCHANGED <<current_state, turn, tool_log, loops, iter0, caller, own, twin>>

answer_generator == AnswerStep(AnswerReplies)

\* the nodes of one run of the graph
GraphStep ==
    \/ plan_gatekeeper
    \/ plan_proposer
    \/ query_classifier
    \/ planner
    \/ executor
    \/ evidence_interpreter
    \/ schema_analyzer
    \/ coverage_analyzer
    \/ loop_detector
    \/ alignment
    \/ decision_maker
    \/ exploration_planner
    \/ synthesis_planner
    \/ answer_generator

Next ==
    \/ main_input
    \/ main_after_turn
    \/ GraphStep

Spec == Init /\ [][Next]_vars

\* the deltas the node standing at n can return on state s, one for each
\* answer of its environment (workflow.py:52-65)
NodeDeltas(n, s) ==
    CASE n = "plan_gatekeeper" -> {PlanGatekeeperNode(s, r) : r \in GateReplies}
      [] n = "plan_proposer" -> {PlanProposerNode(s, r) : r \in ProposerReplies}
      [] n = "query_classifier" ->
            {QueryClassifierNode(s, r[1], r[2]) :
                r \in ClassifierReplies \X _VALID_PREDICATES_BY_TYPE["treatment"]}
      [] n = "planner" -> {PlannerNode(s, r) : r \in PlannerReplies}
      [] n = "executor" ->
            {ExecutorNode(s, Tools, env.response, env.o1, env.o2, env.o3).delta :
                env \in GraphEnvs}
      [] n = "evidence_interpreter" ->
            {EvidenceInterpreterNode(s, r) : r \in InterpreterReplies}
      [] n = "schema_analyzer" -> {SchemaAnalyzerNode(s, r) : r \in SchemaReplies}
      [] n = "coverage_analyzer" -> {CoverageAnalyzerNode(s, r) : r \in CoverageReplies}
      [] n = "loop_detector" -> {LoopDetectorNode(s, r) : r \in LoopReplies}
      [] n = "alignment" -> {AlignmentNode(s, r) : r \in AlignmentReplies}
      [] n = "decision_maker" -> {decision_maker_delta(s, r) : r \in DecisionReplies}
      [] n = "exploration_planner" ->
            {ExplorationPlannerNode(s, r) : r \in ExplorationReplies}
      [] n = "synthesis_planner" -> {SynthesisPlannerNode(s, r) : r \in SynthesisReplies}
      [] n = "answer_generator" -> {AnswerGeneratorNode(s, r) : r \in AnswerReplies}
      [] OTHER -> {}

----------------------------------------------------------------------------
(* The executor taken alone, on states shaped like those of test_nodes.py *)

\* test_nodes.py:46-52  hard_constraints handed to the executor
ConstraintSets ==
    {[forbidden_entities |-> fe, forbidden_predicates |-> fp, forbidden_continuations |-> fc] :
        fe \in {<<>>, <<E2>>},
        fp \in {<<>>, <<P1>>},
        fc \in {<<>>, <<[source |-> E1, predicate |-> P1]>>}}

ExecInit ==
    /\ \E plan \in {<<>>, <<"Retrieve edges">>}, hc \in ConstraintSets :
          state = Merge(InitialState, [plan |-> plan, hard_constraints |-> hc])
    /\ pc = "executor"
    /\ current_state = InitialCurrentState
    /\ turn = 0
    /\ last_node = "none"
    /\ llm_reply = NotAsked
    /\ tool_log = NoCalls
    /\ loops = 0
    /\ iter0 = 0
    /\ caller = NoCaller
    /\ own = NoSessions
    /\ twin = InitialState

executor_alone == ExecutorStep(AllEnvs)

ExecSpec == ExecInit /\ [][executor_alone]_vars

----------------------------------------------------------------------------
(* The whole session with the graph run to completion: astream drives every *)
(* node that is ready until the run reaches END                             *)

\* workflow.py:52-65  the nodes of the graph
Nodes ==
    {"planner", "executor", "schema_analyzer", "coverage_analyzer", "loop_detector",
     "alignment", "decision_maker", "exploration_planner", "synthesis_planner",
     "answer_generator", "query_classifier", "evidence_interpreter", "plan_proposer",
     "plan_gatekeeper"}

\* main.py:121  a run that stands at a node moves on to the next node or to END.
\* Under Spec these are exactly the steps of GraphStep: pc is at a node only
\* inside a run, and every node's action changes pc.
Advance == pc \in Nodes /\ pc' \in Nodes \cup {"END"} /\ pc' # pc

FairSpec == Spec /\ WF_pc(Advance)

----------------------------------------------------------------------------
(* The session when a step may raise an exception no node catches *)

\* faulty variant: the session starts over after an aborted run
AbortedRunCleared(s) == InitialState

\* workflow.py:133-134  the checkpoint a run leaves when one of its steps raised:
\* the step returned no delta, so it is the one saved after the step before it
AbortedRun(s) == s

\* nodes.py:602-604  the alignment node reads and decodes channels outside its
\* try block: an exception raised there is caught by no node
UnguardedNodes == {"alignment"}

\* main.py:121, 183-190  the step at pc raised: astream propagates the exception
\* and the handler reads the persisted state again (aget_state of the in-memory
\* checkpointer does not fail)
main_exception ==
    /\ pc \in UnguardedNodes
    /\ pc' = "idle"
    /\ state' = AbortedRun(state)
    /\ current_state' = AbortedRun(state)
    /\ UNCHANGED <<turn, last_node, llm_reply, tool_log, loops, iter0, caller, own, twin>>

AbortNext ==
    \/ Next
    \/ main_exception

AbortSpec == Init /\ [][AbortNext]_vars

----------------------------------------------------------------------------
(* The contract step replayed: two runs from one saved state, given the same *)
(* answer of the provider                                                    *)

\* the states saved when the gatekeeper has approved a plan (nodes.py:200-205)
SavedStates ==
    {Merge(InitialState,
           [input |-> i, plan_proposal |-> "plan A", is_plan_approved |-> TRUE,
            planning_feedback |-> "", response |-> "", original_query |-> q]) :
        i \in {"Proceed", "Go ahead", "Yes"},
        q \in {"", "What treats diabetes?", "What causes asthma?", "What treats asthma?"}}

\* contracts the provider may return: every query type, predicates inside and
\* outside the allowlist of the type; ok = FALSE: the call raised
AllClassifierReplies ==
    {[ok |-> TRUE, query_type |-> t, required_predicates |-> preds] :
        t \in {"treatment", "mechanism", "association"},
        preds \in {<<"biolink:treats">>, <<"biolink:has_indication">>,
                   <<"biolink:treats", "biolink:related_to">>, <<>>}}
    \cup {[ok |-> FALSE, query_type |-> "", required_predicates |-> <<>>]}

ReplayInit ==
    /\ \E s \in SavedStates : state = s /\ twin = s
    /\ pc = "query_classifier"
    /\ current_state = InitialCurrentState
    /\ turn = 0
    /\ last_node = "plan_gatekeeper"
    /\ llm_reply = NotAsked
    /\ tool_log = NoCalls
    /\ loops = 0
    /\ iter0 = 0
    /\ caller = NoCaller
    /\ own = NoSessions

\* nodes.py:152-157  each run iterates its own set object: first1 and first2 are
\* the elements next(iter(allowed)) yields in the two runs (the iteration order
\* of a set of strings is fixed by the interpreter's hash seed, not by the program)
query_classifier_replayed ==
    /\ pc = "query_classifier"
    /\ \E r \in AllClassifierReplies :
       \E first1 \in _VALID_PREDICATES_BY_TYPE["treatment"],
          first2 \in _VALID_PREDICATES_BY_TYPE["treatment"] :
          /\ state' = Merge(state, QueryClassifierNode(state, r, first1))
          /\ twin' = Merge(twin, QueryClassifierNode(twin, r, first2))
          /\ llm_reply' = Reply(r.ok, r.query_type)
    /\ pc' = "planner"
    /\ last_node' = "query_classifier"
    /\ UNCHANGED <<current_state, turn, tool_log, loops, iter0, caller, own>>

ReplaySpec == ReplayInit /\ [][query_classifier_replayed]_vars

----------------------------------------------------------------------------
(* The HTTP entry point (server.py): one graph, compiled once with one        *)
(* MemorySaver, bound to the configuration of setup_agent and served to every *)
(* caller of /kopernicus                                                      *)

\* server.py:30-33, 46  the thread a caller's request runs under: the route is
\* added without per-request configuration, every run uses this one
ServerThreadId(c) == "default-session"

\* what a caller posts: its question, or its approval of the plan
CallerInputs ==
    [c \in Callers |->
        {IF c = "caller 1" THEN "What treats diabetes?" ELSE "What causes asthma?", "Proceed"}]

ServerInit ==
    /\ state = InitialState
    /\ pc = "idle"
    /\ current_state = InitialCurrentState
    /\ turn = 0
    /\ last_node = "none"
    /\ llm_reply = NotAsked
    /\ tool_log = NoCalls
    /\ loops = 0
    /\ iter0 = 0
    /\ caller = NoCaller
    /\ own = NoSessions
    /\ twin = InitialState

\* server.py:55-61, workflow.py:49, 133-134  a request of caller c: the run starts
\* from the checkpoint of its thread, with `input` written from the request.
\* `state` is the checkpoint of thread "default-session", the only thread.
server_request ==
    /\ pc = "idle"
    /\ turn < MaxRequests
    /\ \E c \in Callers :
        \E text \in CallerInputs[c] :
          /\ ServerThreadId(c) = "default-session"
          /\ state' = Merge(state, GraphInput([input |-> text]))
          /\ caller' = c
    /\ pc' = "plan_gatekeeper"
    /\ turn' = turn + 1
    /\ last_node' = "none"
    /\ llm_reply' = NotAsked
    /\ loops' = 0
    /\ iter0' = Get(state, "iteration_count", 0)
    /\ UNCHANGED <<current_state, tool_log, own, twin>>

\* the run ended and the response is returned to the caller
server_response ==
    /\ pc = "END"
    /\ pc' = "idle"
    /\ own' = [own EXCEPT ![caller] = state]
    /\ caller' = NoCaller
    /\ UNCHANGED <<state, current_state, turn, last_node, llm_reply, tool_log, loops, iter0,
                   twin>>

ServerNext ==
    \/ server_request
    \/ server_response
    \/ GraphStep

ServerSpec == ServerInit /\ [][ServerNext]_vars

----------------------------------------------------------------------------
(* The decision step taken alone, on every short history of step outcomes *)

\* the past_steps entries ExecutorNode writes (nodes.py:922, 950, 962)
StepOutputs ==
    {<<"get edges", Output(CheckMark, "get_edges", <<"edges">>)>>,
     <<"get edges", Output(CheckMark, "get_edges", <<"No edges found">>)>>,
     <<"get edges", Output(CrossMark, "get_edges", <<"ToolException">>)>>,
     <<"get edges", Output("", "", <<"No tool call generated">>)>>}

Histories == UNION {[1..n -> StepOutputs] : n \in 1..MaxSteps}

\* the contracts QueryClassifierNode writes: one of a treatment query, and the
\* default of a failed classification (nodes.py:164-184)
Contracts ==
    {AnswerContract("treatment", <<"Entity">>, <<"biolink:treats">>),
     AnswerContract("association", <<"Entity">>, <<"biolink:related_to">>)}

\* every decision but the current one has counted: iteration_count is below the
\* number of executor steps, each of which left at least one entry
Item2 ==
    [subject_curie |-> "CHEBI:6801", predicate |-> "biolink:related_to",
     object_curie |-> "HP:0000001", evidence_type |-> "associative", strength_score |-> 2,
     source_step |-> "get edges", rationale |-> "r"]

\* interpretations of the same drug with another object, and without a subject
Item3 ==
    [subject_curie |-> "CHEBI:6801", predicate |-> "biolink:treats",
     object_curie |-> "HP:0000001", evidence_type |-> "direct", strength_score |-> 3,
     source_step |-> "get edges", rationale |-> "r"]

Item4 ==
    [subject_curie |-> "", predicate |-> "biolink:treats",
     object_curie |-> "MONDO:0005148", evidence_type |-> "associative", strength_score |-> 1,
     source_step |-> "get edges", rationale |-> "r"]

\* what interpreted_evidence holds at a decision step
Interpretations ==
    {<<>>, <<Item1>>, <<Item1, Item2>>, <<Item1, Item3>>, <<Item4>>}

DecisionInit ==
    /\ \E h \in Histories, ie \in Interpretations, contract \in Contracts :
       \E n \in 0..(Len(h) - 1) :
          state = Merge(InitialState,
                        [input |-> "Proceed", plan |-> <<"get edges">>, past_steps |-> h,
                         interpreted_evidence |-> ie, iteration_count |-> n,
                         answer_contract |-> contract])
    /\ pc = "decision_maker"
    /\ current_state = InitialCurrentState
    /\ turn = 0
    /\ last_node = "alignment"
    /\ llm_reply = NotAsked
    /\ tool_log = NoCalls
    /\ loops = 0
    /\ iter0 = 0
    /\ caller = NoCaller
    /\ own = NoSessions
    /\ twin = InitialState

DecisionSpec == DecisionInit /\ [][decision_maker]_vars

----------------------------------------------------------------------------
(* The evidence interpreter taken alone, after every outcome of the executor *)

\* the record and the interpretation an earlier cycle left
OlderRecord ==
    [step |-> "older step", tool |-> "get_edges", args |-> [curie |-> E1, predicate |-> P2],
     status |-> "success", data |-> [text |-> <<"edges">>, edges |-> <<Edge1>>]]

\* InterpretedEvidenceList (nodes.py:452, 475-481); ok = FALSE: the call raised
AllInterpreterReplies ==
    {[ok |-> TRUE, items |-> <<Item1>>], [ok |-> TRUE, items |-> <<Item1, Item2>>],
     [ok |-> TRUE, items |-> <<>>], [ok |-> FALSE, items |-> <<>>]}

\* The interpreter runs right after the executor (workflow.py:99): its state is
\* the one an executor step left, in cycle i + 1 of the episode, with or
\* without the record of an earlier cycle.
InterpreterInit ==
    /\ \E env \in AllEnvs, i \in 0..(MaxSteps - 1), older \in BOOLEAN,
          hc \in {[forbidden_entities |-> <<>>, forbidden_predicates |-> <<>>,
                   forbidden_continuations |-> <<>>],
                  [forbidden_entities |-> <<E2>>, forbidden_predicates |-> <<P1>>,
                   forbidden_continuations |-> <<>>]} :
          LET s == Merge(InitialState,
                         [plan |-> <<"Retrieve edges">>, hard_constraints |-> hc,
                          iteration_count |-> i,
                          evidence |-> IF older THEN <<OlderRecord>> ELSE <<>>,
                          interpreted_evidence |-> IF older THEN <<Item1>> ELSE <<>>])
          IN  state = Merge(s, ExecutorNode(s, Tools, env.response, env.o1, env.o2,
                                            env.o3).delta)
    /\ pc = "evidence_interpreter"
    /\ current_state = InitialCurrentState
    /\ turn = 0
    /\ last_node = "executor"
    /\ llm_reply = NotAsked
    /\ tool_log = NoCalls
    /\ loops = 0
    /\ iter0 = 0
    /\ caller = NoCaller
    /\ own = NoSessions
    /\ twin = InitialState

interpreter_alone == InterpreterStep(AllInterpreterReplies)

InterpreterSpec == InterpreterInit /\ [][interpreter_alone]_vars

----------------------------------------------------------------------------
(* The alignment step taken alone, in every cycle of a short episode *)

\* the constraints a state of the workflow can hold (state.py:135-139)
StewardConstraints ==
    {HardConstraintsDict([forbidden_entities |-> fe, forbidden_predicates |-> fp]) :
        fe \in {<<>>, <<E2>>}, fp \in {<<>>, <<P1>>}}

\* a log written by an earlier update
Log0 ==
    [resolved_entities |-> <<>>, trajectory |-> <<>>, deprioritized_paths |-> <<>>,
     hypotheses |-> <<>>, open_questions |-> <<"q">>, novelty_budget |-> 7,
     global_goal_reframed |-> ""]

\* a log whose novelty_budget is outside the scale the field describes
\* (state.py:154: an int with no bounds declared, so validation accepts it)
LogWild ==
    [resolved_entities |-> <<>>, trajectory |-> <<"t">>, deprioritized_paths |-> <<>>,
     hypotheses |-> <<>>, open_questions |-> <<>>, novelty_budget |-> 12,
     global_goal_reframed |-> ""]

\* AlignmentOutput (state.py:159-163): hard_constraints = <<>> stands for an
\* answer without that field, which the model's default_factory fills in
AllAlignmentReplies ==
    {[ok |-> TRUE, updated_log |-> Log1, hard_constraints |-> hc] :
        hc \in {<<>>,
                [forbidden_predicates |-> <<P2>>],
                [forbidden_entities |-> <<E2>>, forbidden_predicates |-> <<P1>>,
                 forbidden_continuations |-> <<[source |-> E1, predicate |-> P2]>>]}}
    \cup {[ok |-> TRUE, updated_log |-> LogWild, hard_constraints |-> <<>>]}
    \cup {[ok |-> FALSE, updated_log |-> <<>>, hard_constraints |-> <<>>]}

\* In cycle i + 1 of an episode iteration_count is i (workflow.py:36-39) and
\* past_steps holds between i + 1 and 2 (i + 1) entries: each executor step
\* left one, or two when the lookup was normalized (nodes.py:935, 964).
StewardInit ==
    /\ \E i \in 0..(MaxSteps - 1), len \in 1..MaxSteps, looping \in BOOLEAN,
          hc \in StewardConstraints, logged \in BOOLEAN :
          /\ len >= i + 1
          /\ len <= 2 * (i + 1)
          /\ LET s == Merge(InitialState,
                            [input |-> "Proceed", plan |-> <<"get edges">>,
                             past_steps |->
                                [k \in 1..len |->
                                    <<"get edges", Output(CheckMark, "get_edges", <<"edges">>)>>],
                             iteration_count |-> i,
                             loop_detection |->
                                [is_looping |-> looping, repeated_pattern |-> "None",
                                 recommendation |-> "Continue"],
                             hard_constraints |-> hc])
             IN  state = IF logged THEN Merge(s, [community_log |-> Log0]) ELSE s
    /\ pc = "alignment"
    /\ current_state = InitialCurrentState
    /\ turn = 0
    /\ last_node = "loop_detector"
    /\ llm_reply = NotAsked
    /\ tool_log = NoCalls
    /\ loops = 0
    /\ iter0 = 0
    /\ caller = NoCaller
    /\ own = NoSessions
    /\ twin = InitialState

alignment_alone == AlignmentStep(AllAlignmentReplies)

StewardSpec == StewardInit /\ [][alignment_alone]_vars

----------------------------------------------------------------------------
(* The loop detector followed by the alignment step *)

\* LoopDetector (nodes.py:305-318): a loop is flagged or not, or the call raised
AllLoopReplies ==
    {[ok |-> TRUE, is_looping |-> TRUE, recommendation |-> "Change strategy"],
     [ok |-> TRUE, is_looping |-> FALSE, recommendation |-> "Continue"],
     [ok |-> FALSE, is_looping |-> FALSE, recommendation |-> ""]}

\* the state the coverage analyzer leaves in cycle i + 1 (workflow.py:102):
\* the loop detection of the cycle before is still in it
LoopInit ==
    /\ \E i \in 0..(MaxSteps - 1), len \in 1..MaxSteps, was_looping \in BOOLEAN,
          logged \in BOOLEAN :
          /\ len >= i + 1
          /\ len <= 2 * (i + 1)
          /\ LET s == Merge(InitialState,
                            [input |-> "Proceed", plan |-> <<"get edges">>,
                             past_steps |->
                                [k \in 1..len |->
                                    <<"get edges", Output(CheckMark, "get_edges", <<"edges">>)>>],
                             iteration_count |-> i,
                             hard_constraints |-> HardConstraintsDict(<<>>)])
                  s2 == IF i > 0
                        THEN Merge(s, [loop_detection |->
                                          [is_looping |-> was_looping,
                                           repeated_pattern |-> "None",
                                           recommendation |-> "Continue"]])
                        ELSE s
             IN  state = IF logged THEN Merge(s2, [community_log |-> Log0]) ELSE s2
    /\ pc = "loop_detector"
    /\ current_state = InitialCurrentState
    /\ turn = 0
    /\ last_node = "coverage_analyzer"
    /\ llm_reply = NotAsked
    /\ tool_log = NoCalls
    /\ loops = 0
    /\ iter0 = 0
    /\ caller = NoCaller
    /\ own = NoSessions
    /\ twin = InitialState

loop_detector_alone == LoopDetectorStep(AllLoopReplies)

LoopNext ==
    \/ loop_detector_alone
    \/ alignment_alone

LoopSpec == LoopInit /\ [][LoopNext]_vars

----------------------------------------------------------------------------
(* The steps that consume the provider, each taken alone with every answer, *)
(* a failure of the call included                                           *)

\* SchemaAnalysis.patterns (nodes.py:266-273); ok = FALSE: the call raised
AllSchemaReplies ==
    {[ok |-> TRUE, patterns |-> <<"Drug -[treats]-> Disease">>],
     [ok |-> TRUE, patterns |-> <<>>],
     [ok |-> FALSE, patterns |-> <<>>]}

\* the four steps the fallbacks belong to
FallbackNodes == {"plan_gatekeeper", "query_classifier", "schema_analyzer", "decision_maker"}

\* states in which the steps are entered: with or without a plan proposal, in
\* any cycle up to the ceiling, after an executor step of any outcome
FallbackInit ==
    /\ \E i \in 0..(MaxIterations + 1), proposed \in BOOLEAN, h \in StepOutputs,
          ev \in {<<OlderRecord>>,
                  <<[step |-> "get edges", status |-> "failed", data |-> <<"No tool call">>]>>},
          patterns \in {<<>>, <<"Drug -[treats]-> Disease">>} :
          LET s == Merge(InitialState,
                         [input |-> "Proceed", original_query |-> "What treats diabetes?",
                          plan |-> <<"get edges">>, past_steps |-> <<h>>, evidence |-> ev,
                          schema_patterns |-> patterns, iteration_count |-> i,
                          is_plan_approved |-> proposed])
          IN  state = IF proposed THEN Merge(s, [plan_proposal |-> "plan A"]) ELSE s
    /\ pc \in FallbackNodes
    /\ current_state = InitialCurrentState
    /\ turn = 0
    /\ last_node = "none"
    /\ llm_reply = NotAsked
    /\ tool_log = NoCalls
    /\ loops = 0
    /\ iter0 = 0
    /\ caller = NoCaller
    /\ own = NoSessions
    /\ twin = InitialState

classifier_alone == pc \in FallbackNodes /\ last_node = "none" /\ ClassifierStep(AllClassifierReplies)
schema_alone == pc \in FallbackNodes /\ last_node = "none" /\ SchemaStep(AllSchemaReplies)
gatekeeper_alone == pc \in FallbackNodes /\ last_node = "none" /\ plan_gatekeeper
decision_alone == pc \in FallbackNodes /\ last_node = "none" /\ decision_maker

FallbackNext ==
    \/ gatekeeper_alone
    \/ classifier_alone
    \/ schema_alone
    \/ decision_alone

FallbackSpec == FallbackInit /\ [][FallbackNext]_vars

----------------------------------------------------------------------------
(* prune_evidence (utils.py), applied to evidence lists around its cap *)

\* the cap max_items of the model (20 in the code) and the longest list drawn
PruneCap == 4
MaxEvidence == 6

\* utils.py:16  (e.get("step"), e.get("tool"))
StepSig(e) == <<e.step, Get(e, "tool", "")>>

\* Combine without the signature test
RECURSIVE CombineKeepingAll(_, _, _)
CombineKeepingAll(rest, combined, max_items) ==
    IF rest = <<>> THEN combined
    ELSE LET next == Append(combined, Head(rest))
         IN  IF Len(next) >= max_items THEN next
             ELSE CombineKeepingAll(Tail(rest), next, max_items)

\* utils.py:13-22  the first record of each signature, until max_items are kept
RECURSIVE Combine(_, _, _)
Combine(rest, combined, max_items) ==
    IF rest = <<>> THEN combined
    ELSE LET e == Head(rest)
         IN  IF \E i \in 1..Len(combined) : StepSig(combined[i]) = StepSig(e)
             THEN Combine(Tail(rest), combined, max_items)
             ELSE LET next == Append(combined, e)
                  IN  IF Len(next) >= max_items THEN next
                      ELSE Combine(Tail(rest), next, max_items)

\* faulty variant: prune_evidence without the signature test
prune_evidence_keeping_all(evidence, max_items) ==
    IF Len(evidence) <= max_items THEN evidence
    ELSE LET successful == SelectSeq(evidence, LAMBDA e : e.status = "success")
             recent == Tail_n(evidence, (max_items + 1) \div 2)
         IN  CombineKeepingAll(successful \o recent, <<>>, max_items)

\* utils.py:6-25; evidence[-max_items//2:] is evidence[(-max_items)//2:], the
\* last ceil(max_items / 2) records
prune_evidence(evidence, max_items) ==
    IF Len(evidence) <= max_items THEN evidence
    ELSE LET successful == SelectSeq(evidence, LAMBDA e : e.status = "success")
             recent == Tail_n(evidence, (max_items + 1) \div 2)
         IN  Combine(successful \o recent, <<>>, max_items)

\* records of executor steps: the same step run twice with the same tool and
\* different results, a failure, and the same step with another tool
PruneRecords ==
    {[step |-> "get edges", tool |-> "get_edges", status |-> "success", data |-> "a"],
     [step |-> "get edges", tool |-> "get_edges", status |-> "success", data |-> "b"],
     [step |-> "get edges", tool |-> "lookup", status |-> "success", data |-> "a"],
     [step |-> "find drugs", tool |-> "get_edges", status |-> "success", data |-> "a"],
     [step |-> "find drugs", status |-> "failed", data |-> "No tool call"]}

PruneInit ==
    /\ \E n \in 0..MaxEvidence : \E ev \in [1..n -> PruneRecords] :
          state = [evidence |-> ev]
    /\ pc = "prune"
    /\ current_state = InitialCurrentState
    /\ turn = 0
    /\ last_node = "none"
    /\ llm_reply = NotAsked
    /\ tool_log = NoCalls
    /\ loops = 0
    /\ iter0 = 0
    /\ caller = NoCaller
    /\ own = NoSessions
    /\ twin = InitialState

\* nodes.py:329, 526, 612  a node prunes the evidence before summarising it
prune ==
    /\ pc = "prune"
    /\ state' = [evidence |-> state["evidence"],
                 pruned |-> prune_evidence(state["evidence"], PruneCap)]
    /\ pc' = "pruned"
    /\ UNCHANGED <<current_state, turn, last_node, llm_reply, tool_log, loops, iter0,
                   caller, own, twin>>

PruneSpec == PruneInit /\ [][prune]_vars

----------------------------------------------------------------------------
(* The answer generator taken alone, on evidence lists around its cap *)

\* the most records drawn between the first and the last of a list
MaxFillers == 16

Edge2 ==
    [subject |-> [id |-> "CHEBI:6801", name |-> "metformin", category |-> "Drug"],
     object |-> [id |-> "MONDO:0004979", name |-> "asthma", category |-> "Disease"],
     predicate |-> "biolink:related_to"]

\* the records the executor leaves (nodes.py:903-964): edge lists, a name
\* lookup and a failure
EdgeRecord(step, tool, edges) ==
    [step |-> step, tool |-> tool, args |-> [curie |-> E2], status |-> "success",
     data |-> [text |-> <<"edges">>, edges |-> edges]]
LookupRecord ==
    [step |-> "find metformin", tool |-> "lookup", args |-> [query |-> "metformin"],
     status |-> "success", data |-> [text |-> <<"CHEBI:6801">>, edges |-> <<>>]]
FailedRecord == [step |-> "get edges", status |-> "failed", data |-> <<"No tool call">>]
AnswerRecords ==
    {EdgeRecord("get edges", "get_edges", <<Edge1>>),
     EdgeRecord("get edges", "get_edges", <<Edge2>>),
     EdgeRecord("edges between", "get_edges_between", <<Edge1, Edge2>>),
     EdgeRecord("get edges", "get_edges", <<>>),
     LookupRecord, FailedRecord}

\* AnswerOutput (nodes.py:739-751); ok = FALSE: the call raised (nodes.py:752)
AllAnswerReplies == {[ok |-> TRUE], [ok |-> FALSE]}

AnswerInit ==
    /\ \E first \in AnswerRecords, last \in AnswerRecords, m \in 0..MaxFillers,
          filler \in {LookupRecord, FailedRecord} :
          state = Merge(InitialState,
                        [input |-> "Proceed", original_query |-> "What treats diabetes?",
                         plan |-> <<"Generate answer: outline">>,
                         evidence |-> <<first>> \o [i \in 1..m |-> filler] \o <<last>>,
                         is_plan_approved |-> TRUE])
    /\ pc = "answer_generator"
    /\ current_state = InitialCurrentState
    /\ turn = 0
    /\ last_node = "synthesis_planner"
    /\ llm_reply = NotAsked
    /\ tool_log = NoCalls
    /\ loops = 0
    /\ iter0 = 0
    /\ caller = NoCaller
    /\ own = NoSessions
    /\ twin = InitialState

answer_alone == AnswerStep(AllAnswerReplies)

AnswerSpec == AnswerInit /\ [][answer_alone]_vars

----------------------------------------------------------------------------
(* Properties *)

\* C1: at the decision step, when the 3 most recent past_steps entries are all
\* non-productive (no success mark, or an empty-result marker in the text) and
\* iteration_count > 2, the flags written are those of the forced decision,
\* "synthesize" if interpreted_evidence is non-empty and "stop" if it is empty,
\* whatever the provider answers.
C1_LoopGuardForcesDecision ==
    [][ LET steps == Get(state, "past_steps", <<>>)
            n == Len(steps)
            stuck == /\ n >= 3
                     /\ \A i \in (n - 2)..n :
                           \/ steps[i][2].mark # CheckMark
                           \/ Range(steps[i][2].text) \cap _EMPTY_MARKERS # {}
            synthesize == Get(state, "interpreted_evidence", <<>>) # <<>>
        IN  (pc = "decision_maker" /\ stuck /\ Get(state, "iteration_count", 0) > 2)
            => /\ Get(state', "should_explore_more", "unset") = FALSE
               /\ Get(state', "ready_to_answer", "unset") = TRUE
               /\ Get(state', "should_transition_to_synthesis", "unset") = synthesize
               /\ Get(state', "decision_reasoning", <<>>)
                    = <<"Forced", IF synthesize THEN "synthesize" ELSE "stop">>
      ]_vars

\* the guard fired on exactly three trailing failures, at iteration_count = 3,
\* although the provider answered "explore"
C1_Witness ==
    /\ last_node = "decision_maker"
    /\ Get(state, "decision_reasoning", <<>>) = <<"Forced", "synthesize">>
    /\ Len(state["past_steps"]) = 4
    /\ _is_productive(state["past_steps"][1][2])
    /\ state["iteration_count"] = 4

\* C2: a turn in which the plan is approved reaches the answer generator and
\* ends, and in an episode that starts with iteration_count = 0 the exploration
\* loop (executor ... decision_maker) runs at most max_iterations times.
C2_Termination ==
    /\ [](iter0 = 0 => loops <= MaxIterations)
    /\ (pc = "query_classifier") ~> (pc = "END" /\ last_node = "answer_generator")

\* a turn that used the whole budget and ended with the answer generator
C2_Witness ==
    /\ pc = "END"
    /\ last_node = "answer_generator"
    /\ iter0 = 0
    /\ caller = NoCaller
    /\ own = NoSessions
    /\ twin = InitialState
    /\ loops = MaxIterations

\* C3: once the decision step yields the forced "stop", no further exploration
\* step is planned in that turn; once it yields the forced "synthesize", the
\* next step is the synthesis planner.
C3_ForcedDecisionTerminal ==
    (last_node = "decision_maker" /\ Get(state, "decision_reasoning", <<>>) # <<>>
        /\ state["decision_reasoning"][1] = "Forced")
    => IF state["decision_reasoning"][2] = "stop"
       THEN pc \notin {"exploration_planner", "executor"}
       ELSE pc = "synthesis_planner"

\* the forced "stop" is followed by the exploration planner
C3_Witness ==
    /\ last_node = "decision_maker"
    /\ Get(state, "decision_reasoning", <<>>) = <<"Forced", "stop">>
    /\ pc = "exploration_planner"

\* C4: a requested tool call, whatever the tool, whose predicate argument is in
\* hard_constraints.forbidden_predicates invokes no tool and leaves exactly one
\* evidence record, marked rejected, and one past_steps entry.
C4_ForbiddenPredicateNeverInvoked ==
    [][ LET hc == Get(state, "hard_constraints", <<>>)
            forbidden == Range(Get(hc, "forbidden_predicates", <<>>))
            req == tool_log'.requested
        IN  (pc = "executor" /\ req # <<>>
                /\ ArgGet(req[1].args, "predicate") \in forbidden)
            => /\ tool_log'.invoked = <<>>
               /\ Len(state'["evidence"]) = Len(state["evidence"]) + 1
               /\ Last(state'["evidence"]).status = "rejected"
               /\ Len(state'["past_steps"]) = Len(state["past_steps"]) + 1
      ]_vars

\* get_edges_between was invoked with a predicate the constraints forbid
C4_Witness ==
    /\ last_node = "executor"
    /\ tool_log.requested # <<>>
    /\ tool_log.requested[1].tool = "get_edges_between"
    /\ tool_log.requested[1].args["predicate"]
          \in Range(state["hard_constraints"]["forbidden_predicates"])
    /\ tool_log.invoked # <<>>

\* C5: a call of an edge-retrieval tool whose (source, predicate) equals an entry
\* of hard_constraints.forbidden_continuations is blocked without invoking the
\* tool, even when forbidden_predicates is empty; a call with the same predicate
\* and a different source, that no other ban applies to, reaches the tool.
C5_ForbiddenContinuation ==
    [][ LET hc == Get(state, "hard_constraints", <<>>)
            pairs == Get(hc, "forbidden_continuations", <<>>)
            req == tool_log'.requested
            args == req[1].args
            pred == ArgGet(args, "predicate")
            source == Or4(ArgGet(args, "curie"), ArgGet(args, "source_node"),
                          ArgGet(args, "subject"), ArgGet(args, "source"))
            match == \E i \in 1..Len(pairs) :
                        pairs[i].source = source /\ pairs[i].predicate = pred
            other_ban ==
                \/ pred \in Range(Get(hc, "forbidden_predicates", <<>>))
                \/ \E k \in DOMAIN args :
                      args[k] \in Range(Get(hc, "forbidden_entities", <<>>))
        IN  (pc = "executor" /\ req # <<>> /\ req[1].tool \in {"get_edges", "get_edge_summary"}
                /\ pred # "" /\ source # "")
            => /\ match =>
                    /\ tool_log'.invoked = <<>>
                    /\ Len(state'["evidence"]) = Len(state["evidence"]) + 1
                    /\ Last(state'["evidence"]).status = "failed"
               /\ (~match /\ ~other_ban) =>
                    /\ tool_log'.invoked # <<>>
                    /\ tool_log'.invoked[1].tool = req[1].tool
                    /\ tool_log'.invoked[1].args = args
      ]_vars

\* a call matching the forbidden pair was blocked although no predicate is
\* globally forbidden
C5_Witness ==
    /\ last_node = "executor"
    /\ state["hard_constraints"]["forbidden_predicates"] = <<>>
    /\ state["hard_constraints"]["forbidden_continuations"] # <<>>
    /\ tool_log.requested # <<>>
    /\ tool_log.requested[1].tool = "get_edges"
    /\ tool_log.invoked = <<>>
    /\ Last(state["evidence"]).status = "failed"

\* C6: after the gatekeeper step is_plan_approved is true exactly when a plan
\* proposal existed and the classifier answered "approved"; on "feedback", on a
\* failure of the classifier and without a plan proposal it is false.
C6_GatekeeperApproval ==
    [][ pc = "plan_gatekeeper"
        => /\ Has(state', "is_plan_approved")
           /\ state'["is_plan_approved"]
                = (StrTruthy(state, "plan_proposal") /\ llm_reply' = Reply(TRUE, "approved"))
      ]_vars

\* the classifier failed on an existing proposal and the flag is false
C6_Witness ==
    /\ last_node = "plan_gatekeeper"
    /\ StrTruthy(state, "plan_proposal")
    /\ llm_reply = Reply(FALSE, "fail")
    /\ state["is_plan_approved"] = FALSE

\* C7: the contract step, the planner and the executor, hence every tool
\* invocation, run only with a plan proposal and is_plan_approved true after the
\* gatekeeper; otherwise the turn is gatekeeper, plan proposer, end.
C7_ExplorationGatedByApproval ==
    [][ LET approved == StrTruthy(state', "plan_proposal")
                        /\ BoolTruthy(state', "is_plan_approved")
        IN  /\ pc = "plan_gatekeeper"
                => pc' = IF approved THEN "query_classifier" ELSE "plan_proposer"
            /\ pc = "plan_proposer" => pc' = "END"
            /\ pc' \in {"query_classifier", "planner", "executor"} => approved
            /\ tool_log' # tool_log => pc = "executor"
      ]_vars

\* feedback on a proposal: the turn ended after the plan proposer, not approved
C7_Witness ==
    /\ pc = "END"
    /\ last_node = "plan_proposer"
    /\ turn >= 2
    /\ StrTruthy(state, "plan_proposal")
    /\ ~BoolTruthy(state, "is_plan_approved")

C10_OneRecordPerAttempt ==
    [][ LET de == Len(state'["evidence"]) - Len(state["evidence"])
            dp == Len(state'["past_steps"]) - Len(state["past_steps"])
            calls == tool_log'.invoked
            auto == \E i \in 2..Len(calls) : calls[i].tool = "get_normalized_nodes"
        IN  pc = "executor"
            => /\ de = dp
               /\ de = IF auto THEN 2 ELSE 1
               /\ Len(calls) <= de
      ]_vars

\* C10, amended: an executor step adds as many evidence records as past_steps
\* entries: two of each when the automatic normalization call returned, one of
\* each otherwise; a normalization call that raised and the failed first try of
\* a retried lookup leave no record.
C10_RecordsPerStep ==
    [][ LET de == Len(state'["evidence"]) - Len(state["evidence"])
            dp == Len(state'["past_steps"]) - Len(state["past_steps"])
            calls == tool_log'.invoked
            auto_ok == \E i \in 2..Len(calls) :
                          calls[i].tool = "get_normalized_nodes" /\ ~calls[i].raised
        IN  pc = "executor"
            => /\ de = dp
               /\ de = IF auto_ok THEN 2 ELSE 1
      ]_vars

\* a retried lookup followed by a normalization call that raised: three calls
\* of tools, one record
C10_Witness ==
    /\ last_node = "executor"
    /\ Len(tool_log.invoked) = 3
    /\ tool_log.invoked[3].tool = "get_normalized_nodes"
    /\ tool_log.invoked[3].raised
    /\ Len(state["evidence"]) = 1
    /\ Len(state["past_steps"]) = 1

C12_RetryOnlyLookup ==
    last_node = "executor" =>
        LET calls == tool_log.invoked
            n(t) == Cardinality({i \in 1..Len(calls) : calls[i].tool = t})
        IN  /\ \A t \in Tools : n(t) <= IF t = "lookup" THEN 2 ELSE 1
            /\ (n("lookup") = 2) <=>
                    (calls # <<>> /\ calls[1].tool = "lookup" /\ calls[1].raised)
            /\ (n("lookup") = 2 /\ calls[2].raised) =>
                    /\ Len(state["evidence"]) = 1
                    /\ state["evidence"][1].status = "error"
                    /\ Get(state["evidence"][1], "tool", "") = "lookup"
                    /\ Len(calls) = 2

\* both invocations of the lookup raised: one error record
C12_Witness ==
    /\ last_node = "executor"
    /\ Len(tool_log.invoked) = 2
    /\ \A i \in 1..2 : tool_log.invoked[i].tool = "lookup" /\ tool_log.invoked[i].raised
    /\ Len(state["evidence"]) = 1
    /\ state["evidence"][1].status = "error"

\* C13: after a decision step taken with fewer than 3 trailing non-productive
\* steps, below the iteration ceiling, and with fewer distinct qualifying
\* entities in interpreted_evidence than the contract's min_unique_entities, the
\* decision is "explore" and the next node is the exploration planner, whatever
\* the provider answered.
C13_InsufficientEvidenceBlocksSynthesis ==
    (/\ last_node = "decision_maker"
     /\ consecutive_failures(state["past_steps"]) < FRUSTRATION_THRESHOLD
     /\ unique_entities(state) < min_unique(state)
     /\ state["iteration_count"] < Get(state, "max_iterations", MaxIterations))
    => /\ state["should_explore_more"]
       /\ ~state["should_transition_to_synthesis"]
       /\ pc = "exploration_planner"

\* no qualifying entity at all, no trailing failure, and the provider's
\* "synthesize" is followed: the next node is the synthesis planner
C13_Witness ==
    /\ last_node = "decision_maker"
    /\ consecutive_failures(state["past_steps"]) = 0
    /\ unique_entities(state) = 0
    /\ min_unique(state) = 1
    /\ llm_reply.ok
    /\ llm_reply.answer = "synthesize"
    /\ state["should_transition_to_synthesis"]
    /\ pc = "synthesis_planner"

\* C14: when an input starts a run of the graph and the run before it ended
\* with the answer generator's response, the research state the run starts from
\* has been reset: past_steps and evidence are empty, iteration_count is 0,
\* there is no plan_proposal and the plan is not approved.
C14_EpisodeReset ==
    (/\ pc = "plan_gatekeeper"
     /\ last_node = "none"
     /\ Get(state, "response", "") \in {"answer", "Based on collected evidence"})
    => /\ state["past_steps"] = <<>>
       /\ state["evidence"] = <<>>
       /\ state["iteration_count"] = 0
       /\ ~StrTruthy(state, "plan_proposal")
       /\ ~BoolTruthy(state, "is_plan_approved")

\* the input after an answered turn is handed to a run that starts from the old
\* episode: the caller's own copy is reset, the persisted state is not
C14_Witness ==
    /\ pc = "plan_gatekeeper"
    /\ last_node = "none"
    /\ Get(state, "response", "") = "answer"
    /\ Get(current_state, "past_steps", <<"unset">>) = <<>>
    /\ ~StrTruthy(current_state, "plan_proposal")
    /\ state["past_steps"] # <<>>
    /\ state["iteration_count"] > 0
    /\ StrTruthy(state, "plan_proposal")
    /\ BoolTruthy(state, "is_plan_approved")

\* C15: the run serving a request of a caller starts from the state that
\* caller's own previous request ended with (the empty state when it made
\* none), with its input written to it: nothing of another caller's plan
\* proposal, approval, evidence or iteration_count is in the state its steps read.
C15_SessionIsolation ==
    (pc = "plan_gatekeeper" /\ last_node = "none" /\ caller \in Callers)
    => state = Merge(own[caller], [input |-> state["input"]])

\* caller 2 posts its question after caller 1's plan was proposed: the
\* gatekeeper is about to read caller 1's plan proposal and original query
C15_Witness ==
    /\ pc = "plan_gatekeeper"
    /\ last_node = "none"
    /\ caller = "caller 2"
    /\ own["caller 2"] = InitialState
    /\ state["input"] = "What causes asthma?"
    /\ StrTruthy(state, "plan_proposal")
    /\ Get(state, "original_query", "") = "What treats diabetes?"

C17_Determinism ==
    state = twin

\* the provider's only predicate is outside the allowlist of a treatment query:
\* one run defaults to biolink:treats, the other to the second allowed predicate
C17_Witness ==
    /\ last_node = "query_classifier"
    /\ llm_reply = Reply(TRUE, "treatment")
    /\ state["answer_contract"].required_predicates = <<"biolink:treats">>
    /\ twin["answer_contract"].required_predicates =
          <<"biolink:treats_or_applied_or_studied_to_treat">>
    /\ [state EXCEPT !["answer_contract"] = twin["answer_contract"]] = twin

\* C18 as stated: every evidence record has status success, error or rejected,
\* and the record of a call blocked by a policy has status rejected.
C18_StatusRejected ==
    /\ \A i \in 1..Len(state["evidence"]) :
          state["evidence"][i].status \in {"success", "error", "rejected"}
    /\ (/\ last_node = "executor"
        /\ tool_log.requested # <<>>
        /\ tool_log.requested[1].tool \in Tools
        /\ tool_log.invoked = <<>>)
       => Last(state["evidence"]).status = "rejected"

\* C18, amended: every evidence record has status success, error or failed, and
\* the record of a call blocked by a policy (an available tool was requested
\* and not invoked) has status failed.
C18_EvidenceStatus ==
    /\ \A i \in 1..Len(state["evidence"]) :
          state["evidence"][i].status \in {"success", "error", "failed"}
    /\ (/\ last_node = "executor"
        /\ tool_log.requested # <<>>
        /\ tool_log.requested[1].tool \in Tools
        /\ tool_log.invoked = <<>>)
       => Last(state["evidence"]).status = "failed"

\* a get_edges call with a forbidden predicate was blocked: one record, failed
C18_Witness ==
    /\ last_node = "executor"
    /\ tool_log.requested # <<>>
    /\ tool_log.requested[1].tool = "get_edges"
    /\ ArgGet(tool_log.requested[1].args, "predicate")
          \in Range(state["hard_constraints"]["forbidden_predicates"])
    /\ tool_log.invoked = <<>>
    /\ Len(state["evidence"]) = 1
    /\ state["evidence"][1].status = "failed"

C20_ContractWrittenOnce ==
    [][ /\ (Get(state', "answer_contract", <<>>) # Get(state, "answer_contract", <<>>))
            => /\ pc = "query_classifier"
               /\ last_node = "plan_gatekeeper"
               /\ BoolTruthy(state, "is_plan_approved")
        /\ (pc = "plan_gatekeeper" /\ BoolTruthy(state', "is_plan_approved"))
            => pc' = "query_classifier"
        /\ (pc = "query_classifier")
            => (Has(state', "answer_contract") /\ pc' = "planner")
      ]_vars

\* the contract written after approval is still the one in the state when the
\* answer is delivered, two exploration cycles later
C20_Witness ==
    /\ pc = "END"
    /\ last_node = "answer_generator"
    /\ loops >= 2
    /\ state["answer_contract"] =
          AnswerContract("treatment", <<"Entity">>, <<"biolink:treats">>)

\* C21: an entry of forbidden_entities, forbidden_predicates or
\* forbidden_continuations that is in hard_constraints before a step is still
\* in it after the step (the code has no operation by which the steward
\* removes an entry).
C21_ConstraintsOnlyGrow ==
    [][ \A k \in {"forbidden_entities", "forbidden_predicates", "forbidden_continuations"} :
            Range(Get(Get(state, "hard_constraints", <<>>), k, <<>>))
                \subseteq Range(Get(Get(state', "hard_constraints", <<>>), k, <<>>))
      ]_vars

\* the steward has rewritten the log and left hard_constraints empty
C21_Witness ==
    /\ last_node = "alignment"
    /\ Get(state, "community_log", <<>>) = Log1
    /\ state["hard_constraints"] = HardConstraintsDict(<<>>)

\* the state after the step is the state before it changed by delta d
C22_Merged(d) ==
    /\ DOMAIN state' = (DOMAIN state) \cup (DOMAIN d)
    /\ \A k \in DOMAIN state' :
          IF k \notin DOMAIN d THEN state'[k] = state[k]
          ELSE IF k \in {"past_steps", "evidence", "schema_patterns",
                         "interpreted_evidence", "negative_knowledge"}
               THEN state'[k] = state[k] \o d[k]
               ELSE state'[k] = d[k]

C24_FailedProposalKeepsPlan ==
    [][ (pc = "plan_proposer" /\ last_node' = "plan_proposer" /\ ~llm_reply'.ok) =>
            /\ Get(state', "plan_proposal", "") = Get(state, "plan_proposal", "")
            /\ state'["response"] = "I encountered an error generating the plan"
      ]_vars

\* the placeholder left by a failed first proposal has been approved and the
\* run has gone on to the contract step
C24_Witness ==
    /\ pc = "query_classifier"
    /\ state["plan_proposal"] = "Error"
    /\ BoolTruthy(state, "is_plan_approved")

\* C25: a requested call of an available tool, whichever tool it is, in which
\* the value of a string argument is in hard_constraints.forbidden_entities
\* invokes no tool and leaves exactly one evidence record and one past_steps
\* entry.
C25_ForbiddenEntityBlocked ==
    LET req == tool_log.requested
        args == req[1].args
        forbidden == Range(Get(Get(state, "hard_constraints", <<>>), "forbidden_entities", <<>>))
    IN  (/\ last_node = "executor"
         /\ req # <<>>
         /\ req[1].tool \in Tools
         /\ \E k \in (DOMAIN args) \ ListArgs : args[k] \in forbidden)
        => /\ tool_log.invoked = <<>>
           /\ Len(state["evidence"]) = 1
           /\ Len(state["past_steps"]) = 1

\* get_edges_between, whose predicate and source are not policed, was blocked
\* for its second entity while no predicate and no path is forbidden
C25_Witness ==
    /\ last_node = "executor"
    /\ tool_log.requested # <<>>
    /\ tool_log.requested[1].tool = "get_edges_between"
    /\ tool_log.requested[1].args["curie2"]
          \in Range(state["hard_constraints"]["forbidden_entities"])
    /\ state["hard_constraints"]["forbidden_predicates"] = <<>>
    /\ state["hard_constraints"]["forbidden_continuations"] = <<>>
    /\ tool_log.invoked = <<>>
    /\ Len(state["evidence"]) = 1

\* C26: the identifiers sent in the automatic normalization call are the
\* identifier tokens of the lookup result in the order of their first
\* occurrence, each once, cut to the first 5; a result that holds
\* MONDO:0005148 and CHEBI:6801 and no other identifier yields exactly one
\* normalization call, carrying both.
C26_NormalizedIdentifiers ==
    last_node = "executor" =>
        LET calls == tool_log.invoked
            autos == {i \in 2..Len(calls) : calls[i].tool = "get_normalized_nodes"}
            ids == SelectSeq(state["evidence"][1].data.text, IsCurie)
            firsts == {j \in 1..Len(ids) : \A k \in 1..(j - 1) : ids[k] # ids[j]}
            rank(j) == Cardinality({m \in firsts : m <= j})
        IN  /\ \A i \in autos :
                  LET curies == calls[i].args.curies IN
                  /\ Len(curies) = IF Cardinality(firsts) < 5 THEN Cardinality(firsts) ELSE 5
                  /\ \A n \in 1..Len(curies) :
                        \E j \in firsts : rank(j) = n /\ curies[n] = ids[j]
            /\ (/\ tool_log.requested # <<>>
                /\ tool_log.requested[1].tool = "lookup"
                /\ state["evidence"][1].status = "success"
                /\ Range(ids) = {"MONDO:0005148", "CHEBI:6801"})
               => /\ Cardinality(autos) = 1
                  /\ \A i \in autos :
                        calls[i].args.curies = <<"MONDO:0005148", "CHEBI:6801">>

\* the lookup returned MONDO:0005148 twice around CHEBI:6801 and one
\* normalization call was made with the two identifiers
C26_Witness ==
    /\ last_node = "executor"
    /\ state["evidence"][1].status = "success"
    /\ Get(state["evidence"][1], "tool", "") = "lookup"
    /\ SelectSeq(state["evidence"][1].data.text, IsCurie)
          = <<"MONDO:0005148", "CHEBI:6801", "MONDO:0005148">>
    /\ Len(tool_log.invoked) = 2
    /\ tool_log.invoked[2].tool = "get_normalized_nodes"
    /\ tool_log.invoked[2].args.curies = <<"MONDO:0005148", "CHEBI:6801">>

\* C27: an interpreter step on a state whose last evidence record is not a
\* success appends exactly one entry to negative_knowledge, carrying the
\* iteration_count of that state, and leaves interpreted_evidence as it was.
C27_FailureBecomesNegativeKnowledge ==
    [][ (pc = "evidence_interpreter" /\ Last(state["evidence"]).status # "success") =>
            LET nk == state["negative_knowledge"]
                nk2 == state'["negative_knowledge"]
            IN  /\ Len(nk2) = Len(nk) + 1
                /\ SubSeq(nk2, 1, Len(nk)) = nk
                /\ Last(nk2).iteration = Get(state, "iteration_count", 0)
                /\ state'["interpreted_evidence"] = state["interpreted_evidence"]
      ]_vars

\* in the third cycle a blocked call has become negative knowledge of
\* iteration 2, the interpretation of the earlier cycle standing as it was
C27_Witness ==
    /\ last_node = "evidence_interpreter"
    /\ Last(state["evidence"]).status = "failed"
    /\ state["iteration_count"] = 2
    /\ Len(state["negative_knowledge"]) = 1
    /\ state["negative_knowledge"][1].iteration = 2
    /\ state["interpreted_evidence"] = <<Item1>>

\* C28: an interpreter step changes interpreted_evidence only if the last
\* evidence record is a success of get_edges or get_edges_between (and the
\* provider answered); when the last record is a success of another tool, or
\* the provider call fails, the step changes nothing in the state. A record
\* older than the last one is never the reason for an interpretation.
C28_OnlyLastEdgeRecordInterpreted ==
    [][ (pc = "evidence_interpreter") =>
            LET last_raw == Last(state["evidence"])
                edge == /\ last_raw.status = "success"
                        /\ Get(last_raw, "tool", "") \in {"get_edges", "get_edges_between"}
            IN  /\ (state'["interpreted_evidence"] # state["interpreted_evidence"])
                       => (edge /\ llm_reply'.ok)
                /\ (last_raw.status = "success" /\ (~edge \/ ~llm_reply'.ok))
                       => state' = state
      ]_vars

\* the last record is the normalization that followed a lookup, an older
\* record is a success of get_edges, and the step has added no interpretation
C28_Witness ==
    /\ last_node = "evidence_interpreter"
    /\ Len(state["evidence"]) = 3
    /\ state["evidence"][1] = OlderRecord
    /\ Get(Last(state["evidence"]), "tool", "") = "get_normalized_nodes"
    /\ Last(state["evidence"]).status = "success"
    /\ llm_reply.ok
    /\ state["interpreted_evidence"] = <<Item1>>
    /\ state["negative_knowledge"] = <<>>

\* C29 as stated: the count the decision step hands to the provider is the
\* number of distinct identifiers that occur as subject or as object of the
\* interpreted_evidence items whose predicate is in required_predicates.
C29_CountsSubjectsAndObjects ==
    (last_node = "decision_maker" /\ "unique_entities" \in DOMAIN llm_reply) =>
        LET required == Range(state["answer_contract"].required_predicates)
            items == {x \in Range(state["interpreted_evidence"]) : x.predicate \in required}
        IN  llm_reply.unique_entities =
                Cardinality(({x.subject_curie : x \in items}
                                \cup {x.object_curie : x \in items}) \ {""})

\* C29, amended: each interpreted_evidence item whose predicate is in
\* required_predicates stands for one identifier, its subject, or its object
\* when the subject is empty; the count the decision step hands to the
\* provider is the number of distinct such identifiers.
C29_CountsOneEndPerItem ==
    (last_node = "decision_maker" /\ "unique_entities" \in DOMAIN llm_reply) =>
        LET required == Range(state["answer_contract"].required_predicates)
            items == {x \in Range(state["interpreted_evidence"]) : x.predicate \in required}
            with_subject == {x \in items : x.subject_curie # ""}
            without == items \ with_subject
        IN  llm_reply.unique_entities =
                Cardinality({x.subject_curie : x \in with_subject}
                                \cup {x.object_curie : x \in without})

\* two qualifying items with one subject and two objects were counted as one
C29_Witness ==
    /\ last_node = "decision_maker"
    /\ "unique_entities" \in DOMAIN llm_reply
    /\ state["interpreted_evidence"] = <<Item1, Item3>>
    /\ state["answer_contract"].required_predicates = <<"biolink:treats">>
    /\ llm_reply.unique_entities = 1

\* C30 as stated: the alignment step changes community_log or hard_constraints
\* only in a cycle that is iteration 0 or a multiple of the period (counting
\* the cycles from 0 or from 1), or when the loop detector flagged a loop, and
\* only when the provider call succeeded.
C30_CadenceByIteration ==
    [][ (pc = "alignment") =>
            LET i == Get(state, "iteration_count", 0)
                looping == Get(Get(state, "loop_detection", <<>>), "is_looping", FALSE)
                changed ==
                    \/ Get(state', "community_log", <<>>) # Get(state, "community_log", <<>>)
                    \/ Get(state', "hard_constraints", <<>>) # Get(state, "hard_constraints", <<>>)
            IN  changed =>
                    /\ (i = 0 \/ i % AlignmentPeriod = 0 \/ (i + 1) % AlignmentPeriod = 0
                            \/ looping)
                    /\ llm_reply'.ok
      ]_vars

\* C30, amended: the alignment step changes community_log or hard_constraints
\* only when the number of past_steps entries is a multiple of 3 or the loop
\* detector flagged a loop, and only when the provider call succeeded; in
\* every other case both fields are unchanged.
C30_CadenceByStepCount ==
    [][ (pc = "alignment") =>
            LET n == Len(state["past_steps"])
                looping == Get(Get(state, "loop_detection", <<>>), "is_looping", FALSE)
                changed ==
                    \/ Get(state', "community_log", <<>>) # Get(state, "community_log", <<>>)
                    \/ Get(state', "hard_constraints", <<>>) # Get(state, "hard_constraints", <<>>)
            IN  changed => ((n % 3 = 0 \/ looping) /\ llm_reply'.ok)
      ]_vars

\* in the second cycle, with three past_steps entries and no loop flagged, the
\* steward has rewritten the log
C30_Witness ==
    /\ last_node = "alignment"
    /\ state["iteration_count"] = 1
    /\ Len(state["past_steps"]) = 3
    /\ ~state["loop_detection"].is_looping
    /\ llm_reply.ok
    /\ Get(state, "community_log", <<>>) = Log1

\* C31: when the loop detector has flagged a loop, the alignment step that
\* follows it in the same cycle asks the provider for an update, whatever the
\* number of steps and the iteration count, and the decision step comes next.
C31_LoopTriggersSteward ==
    [][ (pc = "alignment" /\ state["loop_detection"].is_looping) =>
            /\ last_node = "loop_detector"
            /\ llm_reply' # NotAsked
            /\ pc' = "decision_maker"
      ]_vars

\* a loop was flagged in the second cycle with two past_steps entries, and the
\* steward has rewritten the log
C31_Witness ==
    /\ last_node = "alignment"
    /\ pc = "decision_maker"
    /\ state["loop_detection"].is_looping
    /\ state["iteration_count"] = 1
    /\ Len(state["past_steps"]) = 2
    /\ llm_reply.ok
    /\ state["community_log"] = Log1

\* C32: whenever the state holds a community log, its novelty_budget is an
\* integer from 1 to 10, whatever the provider returned in a steward update.
C32_NoveltyBudgetInRange ==
    Has(state, "community_log") => state["community_log"].novelty_budget \in 1..10

\* a steward update has stored the budget 12 the provider returned
C32_Witness ==
    /\ last_node = "alignment"
    /\ llm_reply.ok
    /\ Has(state, "community_log")
    /\ state["community_log"].novelty_budget = 12

\* C33: a step whose provider call failed still ends, with its fixed fallback:
\* the contract step writes the default contract (association,
\* biolink:related_to) and goes on to the planner; the schema step adds no
\* pattern; the gatekeeper leaves the plan not approved; the decision step
\* sets "continue exploring" when the iteration_count it read is below
\* max_iterations and synthesis when it is not, and the run goes on to the
\* exploration planner or the synthesis planner.
C33_FixedFallbacks ==
    [][ (llm_reply' = Reply(FALSE, "") \/ llm_reply' = Reply(FALSE, "fail")
            \/ (~llm_reply'.ok /\ "unique_entities" \in DOMAIN llm_reply')) =>
        /\ pc' \in Nodes
        /\ (pc = "query_classifier") =>
              /\ state'["answer_contract"] =
                    [query_type |-> "association", required_entity_types |-> <<"Entity">>,
                     required_predicates |-> <<"biolink:related_to">>,
                     min_path_length |-> 1, max_path_length |-> 3,
                     requires_direct_evidence |-> FALSE]
              /\ pc' = "planner"
        /\ (pc = "schema_analyzer") =>
              /\ state'["schema_patterns"] = state["schema_patterns"]
              /\ pc' = "coverage_analyzer"
        /\ (pc = "plan_gatekeeper") =>
              /\ state'["is_plan_approved"] = FALSE
              /\ pc' = "plan_proposer"
        /\ (pc = "decision_maker") =>
              LET at_limit == state["iteration_count"] >= MaxIterations IN
              /\ state'["should_explore_more"] = ~at_limit
              /\ state'["should_transition_to_synthesis"] = at_limit
              /\ pc' \in {"exploration_planner", "synthesis_planner"}
              /\ at_limit => pc' = "synthesis_planner"
      ]_vars

\* below the ceiling the decision step's provider failed and the run went on
\* to the exploration planner
C33_Witness ==
    /\ last_node = "decision_maker"
    /\ ~llm_reply.ok
    /\ "unique_entities" \in DOMAIN llm_reply
    /\ state["iteration_count"] = 2
    /\ state["should_explore_more"]
    /\ ~state["ready_to_answer"]
    /\ pc = "exploration_planner"

\* C34: once original_query is set, no step changes it: not a proposal after
\* a feedback input, not the gatekeeper on an approval such as "Proceed", not
\* the contract step; and the plan proposer and the opening planner are given
\* original_query, not the latest input.
C34_AnchorSurvives ==
    [][ StrTruthy(state, "original_query") =>
            /\ Has(state', "original_query")
            /\ state'["original_query"] = state["original_query"]
            /\ (pc \in {"plan_proposer", "planner"} /\ pc' # pc)
                   => llm_reply'.query = state["original_query"]
      ]_vars

\* on the approval turn the opening planner was given the question of the
\* first turn while the input is "Proceed"
C34_Witness ==
    /\ last_node = "planner"
    /\ turn >= 2
    /\ state["input"] = "Proceed"
    /\ state["original_query"] = "What treats diabetes?"
    /\ llm_reply.query = "What treats diabetes?"

\* C35 as stated: for a list longer than the cap the result contains every
\* success record of the input, has at most cap records, and no two of its
\* records share a (step, tool) signature; a list of at most cap records is
\* returned unchanged.
C35_KeepsEverySuccess ==
    (pc = "pruned") =>
        LET ev == state["evidence"]
            out == state["pruned"]
        IN  IF Len(ev) <= PruneCap THEN out = ev
            ELSE /\ \A i \in 1..Len(ev) :
                       ev[i].status = "success" => ev[i] \in Range(out)
                 /\ Len(out) <= PruneCap
                 /\ \A i, j \in 1..Len(out) :
                       StepSig(out[i]) = StepSig(out[j]) => i = j

\* C35, amended: for a list longer than the cap the result is made of the
\* success records in their order followed by the last half-cap records
\* (rounded up), of which only the first record of each (step, tool)
\* signature is kept, cut to the first cap records; so it has at most cap
\* records and no signature twice, and a later success record with the
\* signature of an earlier one is left out. A list of at most cap records
\* is returned unchanged.
C35_FirstOfEachSignature ==
    (pc = "pruned") =>
        LET ev == state["evidence"]
            out == state["pruned"]
            all == SelectSeq(ev, LAMBDA e : e.status = "success")
                       \o SubSeq(ev, Len(ev) - ((PruneCap + 1) \div 2) + 1, Len(ev))
            firsts == {j \in 1..Len(all) :
                          \A k \in 1..(j - 1) : StepSig(all[k]) # StepSig(all[j])}
            rank(j) == Cardinality({m \in firsts : m <= j})
        IN  IF Len(ev) <= PruneCap THEN out = ev
            ELSE /\ Len(out) = IF Cardinality(firsts) < PruneCap
                               THEN Cardinality(firsts) ELSE PruneCap
                 /\ \A n \in 1..Len(out) :
                       \E j \in firsts : rank(j) = n /\ out[n] = all[j]
                 /\ \A i, j \in 1..Len(out) :
                       StepSig(out[i]) = StepSig(out[j]) => i = j

\* a list longer than the cap was pruned and a success record of it, the
\* second result of a repeated step, is not in the result
C35_Witness ==
    /\ pc = "pruned"
    /\ Len(state["evidence"]) > PruneCap
    /\ \E i \in 1..Len(state["evidence"]) :
          /\ state["evidence"][i].status = "success"
          /\ state["evidence"][i] \notin Range(state["pruned"])

\* the relationships of the edge lists of a list of evidence records
RECURSIVE C36_Relationships(_)
C36_Relationships(items) ==
    IF items = <<>> THEN <<>>
    ELSE (IF Get(Head(items), "tool", "") \in EdgeTools
          THEN Head(items).data.edges ELSE <<>>) \o C36_Relationships(Tail(items))

\* the subgraph g holds one node per entity id of the relationships rels,
\* each id once, and one edge per relationship, in their order
C36_SubgraphOf(g, rels) ==
    /\ {g.nodes[i].id : i \in 1..Len(g.nodes)}
           = {rels[i].subject.id : i \in 1..Len(rels)}
               \cup {rels[i].object.id : i \in 1..Len(rels)}
    /\ \A i, j \in 1..Len(g.nodes) : g.nodes[i].id = g.nodes[j].id => i = j
    /\ Len(g.edges) = Len(rels)
    /\ \A i \in 1..Len(rels) :
          g.edges[i] = [source |-> rels[i].subject.id, target |-> rels[i].object.id,
                        label |-> rels[i].predicate]

C37_FreshAnchorPerEpisode ==
    (/\ pc = "END" /\ last_node = "plan_proposer" /\ turn = 3
     /\ Has(state, "critical_subgraph") /\ BoolTruthy(state, "ready_to_answer"))
        => /\ state["original_query"] = state["input"]
           /\ llm_reply # NotAsked => llm_reply.query = state["input"]

\* the second question of the session was proposed for after the first was
\* answered, and the proposer was given the first question
C37_Witness ==
    /\ pc = "END" /\ last_node = "plan_proposer" /\ turn = 3
    /\ Has(state, "critical_subgraph") /\ BoolTruthy(state, "ready_to_answer")
    /\ state["input"] = "What causes asthma?"
    /\ llm_reply.ok
    /\ llm_reply.query = "What treats diabetes?"
    /\ state["original_query"] = "What treats diabetes?"

\* C38: every (source, predicate) pair the steward's update places in
\* forbidden_continuations is in the hard_constraints stored in state after
\* the steward step, where the executor looks for it.
C38_ContinuationsStored ==
    (last_node = "alignment" /\ llm_reply # NotAsked /\ llm_reply.ok) =>
        \A fc \in Range(Get(llm_reply.issued, "forbidden_continuations", <<>>)) :
            fc \in Range(Get(state["hard_constraints"], "forbidden_continuations", <<>>))

\* the steward issued the continuation (E1, P2) together with an entity and
\* a predicate; the entity and the predicate are stored, the continuation
\* is not
C38_Witness ==
    /\ last_node = "alignment" /\ llm_reply # NotAsked /\ llm_reply.ok
    /\ [source |-> E1, predicate |-> P2]
           \in Range(Get(llm_reply.issued, "forbidden_continuations", <<>>))
    /\ state["hard_constraints"]["forbidden_entities"] = <<E2>>
    /\ state["hard_constraints"]["forbidden_predicates"] = <<P1>>
    /\ ~Has(state["hard_constraints"], "forbidden_continuations")

\* C39: in every reachable state past_steps and evidence have the same
\* number of entries, in the checkpoint and in the dict the caller keeps
\* between turns: every outcome of the executor appends as many entries to
\* the one as to the other and the episode reset empties both.
C39_LogsAligned ==
    /\ Len(Get(state, "past_steps", <<>>)) = Len(Get(state, "evidence", <<>>))
    /\ Len(Get(current_state, "past_steps", <<>>))
           = Len(Get(current_state, "evidence", <<>>))

\* an episode with a step that made no tool call and a step that returned
\* edges was answered and reset: the caller's dict holds two empty lists,
\* the checkpoint two lists of the same length
C39_Witness ==
    /\ pc = "idle" /\ turn >= 2
    /\ BoolTruthy(state, "ready_to_answer")
    /\ Has(current_state, "evidence") /\ current_state["evidence"] = <<>>
    /\ Has(current_state, "past_steps") /\ current_state["past_steps"] = <<>>
    /\ Len(state["evidence"]) >= 2
    /\ Len(state["past_steps"]) = Len(state["evidence"])
    /\ \E i, j \in 1..Len(state["evidence"]) :
          /\ state["evidence"][i].status = "failed"
          /\ state["evidence"][j].status = "success"

====
